---- MODULE Spec2Model ----
(***************************************************************************)
(* Local Listening Pack generator of aontas-kns (src/unnamed/part_000):    *)
(* sentence segmenter, chunker, lexical extractor, activity synthesizer    *)
(* and pack assembler.  Texts are sequences of one-character strings, so   *)
(* that every string operation of the source is computed on characters.    *)
(***************************************************************************)
EXTENDS Integers, Sequences, FiniteSets, TLC

VARIABLES cin, cout, cpc, callArgs, clock, seed, ret, ret2, pc,
          ui, resp, listeningPack, listeningStatus, gpc,
          hin, hout, hpc,
          pack, state, stepLabel

\* the state of the client component around one generateListeningPack call
genVars == <<ui, resp, listeningPack, listeningStatus, gpc>>
\* the payload handed to the HTML export and the text embedded for it
htmlVars == <<hin, hout, hpc>>
\* the exported listening page: the pack embedded in it, its state object and
\* the two numbers its step label shows
navVars == <<pack, state, stepLabel>>

vars == <<cin, cout, cpc, callArgs, clock, seed, ret, ret2, pc, genVars, htmlVars, navVars>>

(* ------------------------------ bounds --------------------------------- *)
\* longest script and largest character budget given to the chunker alone
MaxLen == 5
MaxT == 3
\* most block identifiers in selectedBlocks, and the most milliseconds between two calls
MaxBlocks == 2
MaxClock == 1

(* --------------------------- characters -------------------------------- *)
\* JavaScript \s restricted to the characters the scripts use
SpaceChars == {" ", "\n"}
NewlineChars == {"\n"}
BarChars == {"|"}
IsSpace(c) == c \in SpaceChars
IsTerminal(c) == c \in {".", "?", "!"}

Min(P) == CHOOSE x \in P : \A y \in P : x <= y

\* a function of domain 1..n as the sequence of its n values
AsSeq(f) == f \o <<>>

Max(P) == CHOOSE x \in P : \A y \in P : y <= x

RECURSIVE SortedIn(_, _, _)
\* the elements of P within lo..hi in increasing order; halving keeps the
\* recursion depth logarithmic in the length of a text
SortedIn(P, lo, hi) ==
  IF lo > hi THEN <<>>
  ELSE IF lo = hi THEN (IF lo \in P THEN <<lo>> ELSE <<>>)
  ELSE SortedIn(P, lo, (lo + hi) \div 2) \o SortedIn(P, (lo + hi) \div 2 + 1, hi)

\* the elements of a finite set of integers in increasing order
SortedSeq(P) == IF P = {} THEN <<>> ELSE SortedIn(P, Min(P), Max(P))

\* the non-empty maximal runs of non-separator characters, in order: what
\* s.split(sep) leaves once the .filter(Boolean) that follows it has run
Fields(s, seps) ==
  LET n == Len(s)
      St == SortedSeq({i \in 1..n : s[i] \notin seps /\ (i = 1 \/ s[i-1] \in seps)})
      En == SortedSeq({j \in 1..n : s[j] \notin seps /\ (j = n \/ s[j+1] \in seps)})
  IN AsSeq([k \in 1..Len(St) |-> SubSeq(s, St[k], En[k])])

\* String.prototype.trim
Trim(s) ==
  LET keep == {i \in 1..Len(s) : ~IsSpace(s[i])}
  IN IF keep = {} THEN <<>>
     ELSE SubSeq(s, Min(keep), Max(keep))

RECURSIVE JoinRange(_, _, _, _)
JoinRange(parts, sep, lo, hi) ==
  IF lo = hi THEN parts[lo]
  ELSE JoinRange(parts, sep, lo, (lo + hi) \div 2) \o sep
         \o JoinRange(parts, sep, (lo + hi) \div 2 + 1, hi)

\* Array.prototype.join
Join(parts, sep) == IF parts = <<>> THEN <<>> ELSE JoinRange(parts, sep, 1, Len(parts))

\* s.replace(/\s+/g, " ")
CollapseWs(s) ==
  LET n == Len(s)
      words == Fields(s, SpaceChars)
      lead == IF n > 0 /\ IsSpace(s[1]) THEN <<" ">> ELSE <<>>
      trail == IF n > 0 /\ IsSpace(s[n]) THEN <<" ">> ELSE <<>>
  IN IF words = <<>> THEN lead
     ELSE lead \o Join(words, <<" ">>) \o trail

\* s.replace(/([.?!])\s+/g, "$1|") on a text whose whitespace runs are
\* single spaces (the output of CollapseWs)
MarkBoundaries(s) ==
  AsSeq([i \in 1..Len(s) |->
     IF IsSpace(s[i]) /\ i > 1 /\ IsTerminal(s[i-1]) THEN "|" ELSE s[i]])

\* the elements of seq at the positions P, in order
SubSeqAt(seq, P) ==
  LET idx == SortedSeq(P) IN AsSeq([k \in 1..Len(idx) |-> seq[idx[k]]])

\* arr.filter(Boolean) on an array of strings
NonEmpty(seq) == SubSeqAt(seq, {k \in 1..Len(seq) : seq[k] # <<>>})

\* arr.map((s) => s.trim()).filter(Boolean)
MapTrimFilter(parts) == NonEmpty(AsSeq([k \in 1..Len(parts) |-> Trim(parts[k])]))

splitSentencesRough(text) ==
  LET cleaned == MapTrimFilter(Fields(MarkBoundaries(CollapseWs(text)), BarChars))
  IN IF Len(cleaned) <= 1
     THEN MapTrimFilter(Fields(text, NewlineChars))
     ELSE cleaned

RECURSIVE GreedyFrom(_, _, _, _, _)
GreedyFrom(sentences, i, buf, chunks, targetChars) ==
  IF i > Len(sentences)
  THEN IF buf # <<>> THEN Append(chunks, buf) ELSE chunks
  ELSE LET s == sentences[i] IN
       IF buf = <<>> THEN GreedyFrom(sentences, i + 1, s, chunks, targetChars)
       ELSE IF Len(buf \o <<" ">> \o s) <= targetChars
            THEN GreedyFrom(sentences, i + 1, buf \o <<" ">> \o s, chunks, targetChars)
            ELSE GreedyFrom(sentences, i + 1, s, Append(chunks, buf), targetChars)

\* faulty variant: every sentence is a chunk of its own
GreedyChunks_noMerge(text, targetChars) == splitSentencesRough(text)

\* the chunks before the split by length
GreedyChunks(text, targetChars) ==
  GreedyFrom(splitSentencesRough(text), 1, <<>>, <<>>, targetChars)

\* faulty variant: the split starts at twice the budget
FitsOversize_twice(c, targetChars) == Len(c) <= 2 * targetChars

\* c.length <= targetChars * 1.8, in integers
FitsOversize(c, targetChars) == 5 * Len(c) <= 9 * targetChars

\* for (let i = 0; i < c.length; i += targetChars) c.slice(i, i + targetChars).trim()
Slices(c, targetChars) ==
  LET n == Len(c)
      cnt == (n + targetChars - 1) \div targetChars
  IN AsSeq([k \in 1..cnt |->
        Trim(SubSeq(c, (k - 1) * targetChars + 1,
                    IF k * targetChars < n THEN k * targetChars ELSE n))])

RECURSIVE SplitOversize(_, _)
SplitOversize(chunks, targetChars) ==
  IF chunks = <<>> THEN <<>>
  ELSE (IF FitsOversize(chunks[1], targetChars)
        THEN <<chunks[1]>>
        ELSE Slices(chunks[1], targetChars))
       \o SplitOversize(Tail(chunks), targetChars)

chunkForWorkingMemory(text, targetChars) ==
  NonEmpty(SplitOversize(GreedyChunks(text, targetChars), targetChars))

(* ------------------- fixed texts of the source ------------------------- *)
STOPWORDS ==
  { <<"t","h","e">>, <<"a">>, <<"a","n">>, <<"a","n","d">>, <<"o","r">>, <<"b","u","t">>,
    <<"s","o">>, <<"t","o">>, <<"o","f">>, <<"i","n">>, <<"o","n">>, <<"f","o","r">>,
    <<"w","i","t","h">>, <<"a","t">>, <<"b","y">>, <<"f","r","o","m">>, <<"a","s">>, <<"i","s">>,
    <<"a","r","e">>, <<"w","a","s">>, <<"w","e","r","e">>, <<"b","e">>, <<"b","e","e","n">>,
    <<"b","e","i","n","g">>, <<"i","t">>, <<"t","h","i","s">>, <<"t","h","a","t">>,
    <<"t","h","e","s","e">>, <<"t","h","o","s","e">>, <<"i">>, <<"y","o","u">>, <<"h","e">>,
    <<"s","h","e">>, <<"w","e">>, <<"t","h","e","y">>, <<"t","h","e","m">>, <<"h","i","s">>,
    <<"h","e","r">>, <<"t","h","e","i","r">>, <<"o","u","r">>, <<"m","y">>, <<"y","o","u","r">>,
    <<"n","o","t">>, <<"n","o">>, <<"y","e","s">>, <<"d","o">>, <<"d","o","e","s">>,
    <<"d","i","d">>, <<"d","o","n","e">>, <<"c","a","n">>, <<"c","o","u","l","d">>,
    <<"w","o","u","l","d">>, <<"s","h","o","u","l","d">>, <<"w","i","l","l">>, <<"j","u","s","t">>,
    <<"a","b","o","u","t">>, <<"i","n","t","o">>, <<"o","v","e","r">>, <<"u","n","d","e","r">>,
    <<"t","h","a","n">>, <<"t","h","e","n">>, <<"t","h","e","r","e">>, <<"h","e","r","e">>,
    <<"w","h","e","n">>, <<"w","h","e","r","e">>, <<"w","h","a","t">>, <<"w","h","o">>,
    <<"w","h","o","m">>, <<"w","h","i","c","h">>, <<"w","h","y">>, <<"h","o","w">>,
    <<"a","l","s","o">>, <<"b","e","c","a","u","s","e">>, <<"w","h","i","l","e">>, <<"i","f">>,
    <<"u","p">>, <<"d","o","w","n">>, <<"o","u","t">>, <<"o","f","f">>, <<"m","o","r","e">>,
    <<"m","o","s","t">>, <<"s","o","m","e">>, <<"a","n","y">>, <<"e","a","c","h">>,
    <<"m","a","n","y">>, <<"s","u","c","h">> }

CollocationStop ==
  { <<"t","h","e">>, <<"a">>, <<"a","n">>, <<"a","n","d">>, <<"o","r">>, <<"b","u","t">>,
    <<"s","o">>, <<"b","e","c","a","u","s","e">>, <<"a","s">>, <<"i","f">>, <<"t","h","e","n">>,
    <<"t","h","a","n">>, <<"t","h","a","t">>, <<"t","h","i","s">>, <<"t","h","e","s","e">>,
    <<"t","h","o","s","e">>, <<"t","o">>, <<"o","f">>, <<"i","n">>, <<"o","n">>, <<"a","t">>,
    <<"f","o","r">>, <<"f","r","o","m">>, <<"w","i","t","h">>, <<"b","y">>,
    <<"a","b","o","u","t">>, <<"i","n","t","o">>, <<"o","v","e","r">>, <<"a","f","t","e","r">>,
    <<"b","e","f","o","r","e">>, <<"b","e","t","w","e","e","n">>, <<"i","s">>, <<"a","r","e">>,
    <<"w","a","s">>, <<"w","e","r","e">>, <<"b","e">>, <<"b","e","e","n">>,
    <<"b","e","i","n","g">>, <<"h","a","v","e">>, <<"h","a","s">>, <<"h","a","d">>, <<"d","o">>,
    <<"d","o","e","s">>, <<"d","i","d">>, <<"w","i","l","l">>, <<"w","o","u","l","d">>,
    <<"c","a","n">>, <<"c","o","u","l","d">>, <<"s","h","o","u","l","d">>, <<"m","a","y">>,
    <<"m","i","g","h","t">>, <<"m","u","s","t">>, <<"i">>, <<"y","o","u">>, <<"h","e">>,
    <<"s","h","e">>, <<"i","t">>, <<"w","e">>, <<"t","h","e","y">>, <<"m","e">>, <<"h","i","m">>,
    <<"h","e","r">>, <<"u","s">>, <<"t","h","e","m">>, <<"m","y">>, <<"y","o","u","r">>,
    <<"h","i","s">>, <<"i","t","s">>, <<"o","u","r">>, <<"t","h","e","i","r">> }

particles ==
  << <<"u","p">>, <<"d","o","w","n">>, <<"i","n">>, <<"o","u","t">>, <<"o","n">>, <<"o","f","f">>,
    <<"o","v","e","r">>, <<"a","w","a","y">>, <<"b","a","c","k">>, <<"t","h","r","o","u","g","h">>,
    <<"a","r","o","u","n","d">>, <<"i","n","t","o">> >>

verbs ==
  << <<"g","e","t">>, <<"g","o">>, <<"t","a","k","e">>, <<"p","u","t">>, <<"c","o","m","e">>,
    <<"l","o","o","k">>, <<"t","u","r","n">>, <<"p","i","c","k">>, <<"s","e","t">>,
    <<"f","i","n","d">>, <<"g","i","v","e">>, <<"m","a","k","e">>, <<"k","e","e","p">>,
    <<"c","a","r","r","y">>, <<"b","r","i","n","g">>, <<"r","u","n">>, <<"w","o","r","k">>,
    <<"b","r","e","a","k">>, <<"h","o","l","d">> >>

GistTheme == <<"t","h","e"," ","m","a","i","n"," ","i","d","e","a">>
GistPrefix == <<"M","a","i","n","l","y"," ","a","b","o","u","t",":"," ">>
CommaSpace == <<","," ">>
GistDistractor1 ==
  <<"M","a","i","n","l","y"," ","a","b","o","u","t",":"," ","a"," ","s","p","o","r","t","s"," ",
    "m","a","t","c","h"," ","a","n","d"," ","t","h","e"," ","s","c","o","r","e">>
GistDistractor2 ==
  <<"M","a","i","n","l","y"," ","a","b","o","u","t",":"," ","t","r","a","v","e","l"," ","p","l",
    "a","n","s"," ","a","n","d"," ","b","o","o","k","i","n","g"," ","d","e","t","a","i","l","s">>
GistDistractor3 ==
  <<"M","a","i","n","l","y"," ","a","b","o","u","t",":"," ","c","o","o","k","i","n","g"," ","a",
    " ","r","e","c","i","p","e"," ","a","n","d"," ","i","n","g","r","e","d","i","e","n","t","s">>
GistPromptStd ==
  <<"L","i","s","t","e","n"," ","o","n","c","e","."," ","W","h","a","t"," ","i","s"," ","t","h",
    "e"," ","m","a","i","n"," ","i","d","e","a","?">>
GistPromptAdp ==
  <<"L","i","s","t","e","n"," ","o","n","c","e","."," ","W","h","a","t"," ","i","s"," ","t","h",
    "e"," ","m","a","i","n"," ","i","d","e","a","?"," ","(","Y","o","u"," ","c","a","n"," ","l",
    "i","s","t","e","n"," ","a","g","a","i","n",".",")">>
OptionPrefix == <<"O","p","t","i","o","n"," ">>
FillerDate == <<"a"," ","d","a","t","e">>
FillerPlace == <<"a"," ","p","l","a","c","e">>
FillerName == <<"a"," ","n","a","m","e">>
KeyFallback == <<"a"," ","k","e","y"," ","d","e","t","a","i","l">>
ChunkLabelPrefix == <<"C","h","u","n","k"," ">>
DetailPromptLow ==
  <<":"," ","W","h","i","c","h"," ","w","o","r","d","/","p","h","r","a","s","e"," ","d","o"," ",
    "y","o","u"," ","h","e","a","r","?">>
DetailPromptHigh ==
  <<":"," ","W","h","i","c","h"," ","d","e","t","a","i","l"," ","i","s"," ","m","e","n","t","i",
    "o","n","e","d","?">>
DetailPromptHint ==
  <<" ","(","L","o","o","k"," ","a","t"," ","t","h","e"," ","o","p","t","i","o","n","s"," ","f",
    "i","r","s","t",".",")">>
TfLow == <<":"," ","Y","o","u"," ","h","e","a","r"," ","\"">>
TfHigh ==
  <<":"," ","T","h","e"," ","s","p","e","a","k","e","r"," ","m","e","n","t","i","o","n","s"," ",
    "\"">>
TfClose == <<"\"",".">>
TfHintLow == <<" ","(","C","h","o","o","s","e"," ","T"," ","o","r"," ","F",".",")">>
TfHintHigh ==
  <<" ","(","C","h","o","o","s","e"," ","T","r","u","e"," ","o","r"," ","F","a","l","s","e",".",
    ")">>
OrderPrompt ==
  <<"P","u","t"," ","t","h","e","s","e"," ","p","a","r","t","s"," ","i","n"," ","t","h","e"," ",
    "o","r","d","e","r"," ","y","o","u"," ","h","e","a","r"," ","t","h","e","m",".">>
OrderHint ==
  <<"U","s","e"," ","t","h","e"," ","c","h","u","n","k"," ","l","a","b","e","l","s"," ","a","s",
    " ","a"," ","g","u","i","d","e",".">>
MatchPromptStd ==
  <<"M","a","t","c","h"," ","e","a","c","h"," ","w","o","r","d","/","p","h","r","a","s","e"," ",
    "t","o"," ","t","h","e"," ","c","h","u","n","k"," ","w","h","e","r","e"," ","y","o","u"," ",
    "h","e","a","r"," ","i","t",".">>
MatchPromptAdp ==
  <<"M","a","t","c","h"," ","e","a","c","h"," ","w","o","r","d","/","p","h","r","a","s","e"," ",
    "t","o"," ","t","h","e"," ","c","h","u","n","k"," ","w","h","e","r","e"," ","y","o","u"," ",
    "h","e","a","r"," ","i","t","."," ","T","i","p",":"," ","d","o"," ","t","h","e"," ","e","a",
    "s","i","e","s","t"," ","o","n","e"," ","f","i","r","s","t",".">>
SummaryPrefix == <<"B","e","s","t"," ","s","u","m","m","a","r","y",":"," ">>
SummaryDistractor1 ==
  <<"B","e","s","t"," ","s","u","m","m","a","r","y",":"," ","I","t"," ","f","o","c","u","s","e",
    "s"," ","o","n","l","y"," ","o","n"," ","n","u","m","b","e","r","s"," ","a","n","d"," ","s",
    "t","a","t","i","s","t","i","c","s",".">>
SummaryDistractor2 ==
  <<"B","e","s","t"," ","s","u","m","m","a","r","y",":"," ","I","t"," ","i","s"," ","m","a","i",
    "n","l","y"," ","a"," ","s","e","t"," ","o","f"," ","i","n","s","t","r","u","c","t","i","o",
    "n","s"," ","t","o"," ","f","o","l","l","o","w",".">>
SummaryDistractor3 ==
  <<"B","e","s","t"," ","s","u","m","m","a","r","y",":"," ","I","t"," ","i","s"," ","m","o","s",
    "t","l","y"," ","a"," ","p","e","r","s","o","n","a","l"," ","d","i","a","r","y"," ","e","n",
    "t","r","y"," ","a","b","o","u","t"," ","f","e","e","l","i","n","g","s",".">>
SummaryPromptStd ==
  <<"C","h","o","o","s","e"," ","t","h","e"," ","b","e","s","t"," ","s","u","m","m","a","r","y",
    ".">>
SummaryPromptAdp ==
  <<"C","h","o","o","s","e"," ","t","h","e"," ","b","e","s","t"," ","s","u","m","m","a","r","y",
    "."," ","(","Y","o","u"," ","c","a","n"," ","l","i","s","t","e","n"," ","a","g","a","i","n",
    ".",")">>

(* --------------------------- Lexical Extractor -------------------------- *)
Uppers ==
  << "A","B","C","D","E","F","G","H","I","J","K","L","M",
     "N","O","P","Q","R","S","T","U","V","W","X","Y","Z" >>
Lowers ==
  << "a","b","c","d","e","f","g","h","i","j","k","l","m",
     "n","o","p","q","r","s","t","u","v","w","x","y","z" >>
DigitChars == <<"0","1","2","3","4","5","6","7","8","9">>

Range(f) == {f[i] : i \in DOMAIN f}

Lower(c) ==
  IF c \in Range(Uppers) THEN Lowers[CHOOSE k \in DOMAIN Uppers : Uppers[k] = c] ELSE c

\* String.prototype.toLowerCase
toLowerCase(s) == AsSeq([i \in 1..Len(s) |-> Lower(s[i])])

\* the regular-expression class \w
IsWordChar(c) == c \in Range(Uppers) \cup Range(Lowers) \cup Range(DigitChars) \cup {"_"}

\* the characters the class [^a-z0-9\s'-] leaves in place
IsTokenChar(c) ==
  c \in Range(Lowers) \cup Range(DigitChars) \cup {"'", "-"} \/ IsSpace(c)

\* s.replace(/[^a-z0-9\s'-]/g, " ")
BlankNonToken(s) == AsSeq([i \in 1..Len(s) |-> IF IsTokenChar(s[i]) THEN s[i] ELSE " "])

\* w.replace(/^'+|'+$/g, "")
StripApostrophes(w) ==
  LET keep == {i \in 1..Len(w) : w[i] # "'"}
  IN IF keep = {} THEN <<>> ELSE SubSeq(w, Min(keep), Max(keep))

\* insertion order of a Map's keys, or of a Set
Distinct(seq) ==
  SubSeqAt(seq, {i \in 1..Len(seq) : \A j \in 1..(i - 1) : seq[j] # seq[i]})

\* arr.slice(0, k)
Take(seq, k) == SubSeq(seq, 1, IF k < Len(seq) THEN k ELSE Len(seq))

\* faulty variant: the keys in insertion order, the counts ignored
RankByFrequency_unsorted(items) == Distinct(items)

\* the keys of the frequency Map after [...entries].sort((a, b) => b[1] - a[1]):
\* descending count, equal counts in insertion order (Array.prototype.sort is stable)
RankByFrequency(items) ==
  LET d == Distinct(items)
      m == Len(d)
      cnt == AsSeq([i \in 1..m |-> Cardinality({k \in 1..Len(items) : items[k] = d[i]})])
      rank == AsSeq([i \in 1..m |->
                 1 + Cardinality({j \in 1..m : cnt[j] > cnt[i] \/ (cnt[j] = cnt[i] /\ j < i)})])
  IN AsSeq([r \in 1..m |-> d[CHOOSE i \in 1..m : rank[i] = r]])

extractAnchors(text, max) ==
  LET toks == Fields(BlankNonToken(toLowerCase(text)), SpaceChars)
      stripped == AsSeq([k \in 1..Len(toks) |-> StripApostrophes(toks[k])])
      words == SubSeqAt(stripped, {k \in 1..Len(stripped) :
                                     Len(stripped[k]) >= 4 /\ stripped[k] \notin STOPWORDS})
  IN Take(RankByFrequency(words), max)

\* const unique = (arr) => Array.from(new Set(arr.map(trim).filter(Boolean)))
unique(arr) == Distinct(MapTrimFilter(arr))

\* the suffix cleanSnippet appends to a shortened text, kept as one element
Ellipsis == <<"...">>

cleanSnippet(s, maxLen) ==
  LET oneLine == Trim(CollapseWs(s))
      cut == SubSeq(oneLine, 1, maxLen)
      spaces == {i \in 1..Len(cut) : cut[i] = " "}
      lastSpace == IF spaces = {} THEN -1 ELSE Max(spaces) - 1
  IN IF Len(oneLine) <= maxLen THEN oneLine
     ELSE Trim(IF lastSpace > 40 THEN SubSeq(cut, 1, lastSpace) ELSE cut) \o Ellipsis

StartsAt(t, i, w) == i + Len(w) - 1 <= Len(t) /\ SubSeq(t, i, i + Len(w) - 1) = w

\* the first position from k on that holds no whitespace (Len(t) + 1 if none)
SkipSpace(t, k) ==
  CHOOSE q \in k..(Len(t) + 1) :
    /\ q = Len(t) + 1 \/ ~IsSpace(t[q])
    /\ \A r \in k..(q - 1) : IsSpace(t[r])

\* a match of \b(verb)\s+(particle)\b that starts at position i of t, as
\* <<verb index, particle index>>; <<>> if there is none
PhrasalMatchAt(t, i) ==
  LET vs == {v \in DOMAIN verbs : StartsAt(t, i, verbs[v])}
      PartAt(v) ==
        LET k == i + Len(verbs[v])
            q == SkipSpace(t, k)
        IN IF k <= Len(t) /\ IsSpace(t[k])
           THEN {p \in DOMAIN particles :
                   /\ StartsAt(t, q, particles[p])
                   /\ (q + Len(particles[p]) - 1 = Len(t)
                         \/ ~IsWordChar(t[q + Len(particles[p])]))}
           ELSE {}
      hits == {v \in vs : PartAt(v) # {}}
  IN IF (i = 1 \/ ~IsWordChar(t[i - 1])) /\ hits # {}
     THEN <<Min(hits), Min(PartAt(Min(hits)))>>
     ELSE <<>>

\* no verb starts inside an earlier match (no verb is a particle), so the
\* matches re.exec returns are the matches at every position, left to right
extractPhrasalVerbsLocal(text) ==
  LET t == toLowerCase(text)
      at == AsSeq([i \in 1..Len(t) |-> PhrasalMatchAt(t, i)])
      pos == SortedSeq({i \in 1..Len(t) : at[i] # <<>>})
      out == AsSeq([k \in 1..Len(pos) |->
                verbs[at[pos[k]][1]] \o <<" ">> \o particles[at[pos[k]][2]]])
  IN Take(unique(out), 12)

\* faulty variant: the pairs in the order they are first heard
extractCollocationsLocal_firstHeard(text) ==
  LET toks == MapTrimFilter(Fields(BlankNonToken(toLowerCase(text)), SpaceChars))
      ok == {i \in 1..(Len(toks) - 1) :
               /\ toks[i] \notin CollocationStop /\ toks[i + 1] \notin CollocationStop
               /\ Len(toks[i]) >= 3 /\ Len(toks[i + 1]) >= 3}
      idx == SortedSeq(ok)
      bgs == AsSeq([k \in 1..Len(idx) |-> toks[idx[k]] \o <<" ">> \o toks[idx[k] + 1]])
  IN Take(unique(bgs), 12)
extractCollocationsLocal(text) ==
  LET toks == MapTrimFilter(Fields(BlankNonToken(toLowerCase(text)), SpaceChars))
      ok == {i \in 1..(Len(toks) - 1) :
               /\ toks[i] \notin CollocationStop /\ toks[i + 1] \notin CollocationStop
               /\ Len(toks[i]) >= 3 /\ Len(toks[i + 1]) >= 3}
      idx == SortedSeq(ok)
      bgs == AsSeq([k \in 1..Len(idx) |-> toks[idx[k]] \o <<" ">> \o toks[idx[k] + 1]])
  IN Take(RankByFrequency(bgs), 12)

\* s.includes(p)
Includes(s, p) == \E i \in 1..(Len(s) - Len(p) + 1) : SubSeq(s, i, i + Len(p) - 1) = p

(* ------------------------------- Levels --------------------------------- *)
levels == <<"A1", "A2", "B1", "B2", "C1", "C2">>
LEVEL_RANK == [l \in Range(levels) |-> CHOOSE k \in DOMAIN levels : levels[k] = l]
levelAtMost(level, max) == LEVEL_RANK[level] <= LEVEL_RANK[max]
levelAtLeast(level, min) == LEVEL_RANK[level] >= LEVEL_RANK[min]

\* a property that holds undefined: chunkId of gist and summary items (a text),
\* and the optional textType, audio url and questionFocus (opaque strings)
UndefinedText == <<"undefined">>
Undefined == "undefined"

RECURSIVE DecimalString(_)
\* `${n}` for a number n >= 0
DecimalString(n) ==
  IF n < 10 THEN <<DigitChars[n + 1]>>
  ELSE DecimalString(n \div 10) \o <<DigitChars[(n % 10) + 1]>>

(* --------------------- chunks and lexical pools ------------------------- *)
\* CEFR-tuned chunk size
TargetCharsFor(level) ==
  IF levelAtMost(level, "A1") THEN 180
  ELSE IF levelAtMost(level, "A2") THEN 205
  ELSE IF levelAtMost(level, "B1") THEN 240
  ELSE IF levelAtMost(level, "B2") THEN 280
  ELSE IF levelAtMost(level, "C1") THEN 320 ELSE 340

ListeningChunks(script, level) ==
  LET rawChunks == chunkForWorkingMemory(script, TargetCharsFor(level))
      src == IF Len(rawChunks) > 0 THEN rawChunks ELSE <<script>>
  IN AsSeq([idx \in 1..Len(src) |->
        [id |-> <<"c">> \o DecimalString(idx),
         label |-> ChunkLabelPrefix \o DecimalString(idx),
         text |-> Trim(src[idx]),
         anchors |-> extractAnchors(src[idx], 5)]])

\* arr.flatMap((x) => x)
Flatten(seqs) == Join(seqs, <<>>)

PhrasePool(script) ==
  unique(extractPhrasalVerbsLocal(script) \o extractCollocationsLocal(script))

AnchorPool(chunks) ==
  Take(unique(Flatten(AsSeq([i \in 1..Len(chunks) |-> chunks[i].anchors]))), 16)

\* what the helper closures of buildLocalListeningPack share
ContextFrom(script, level, chunks) ==
  [level |-> level, chunks |-> chunks,
   phrasePool |-> PhrasePool(script), anchorPool |-> AnchorPool(chunks)]

Context(script, level) == ContextFrom(script, level, ListeningChunks(script, level))

pickChunkKey(c, level, phrasePool) ==
  LET lower == toLowerCase(c.text)
      found == {k \in 1..Len(phrasePool) : Includes(lower, phrasePool[k])}
      snippet == cleanSnippet(c.text, 28)
  IN IF levelAtLeast(level, "B1") /\ found # {} THEN phrasePool[Min(found)]
     ELSE IF c.anchors # <<>> /\ c.anchors[1] # <<>> THEN c.anchors[1]
     ELSE IF snippet # <<>> THEN snippet
     ELSE KeyFallback

(* ------------------------- Activity Synthesizer ------------------------- *)
ALL_LETTERS == <<"A", "B", "C", "D">>

option(id, label) == [id |-> id, text |-> label]

\* faulty variant: the first letters are kept, whichever letter is correct
AdaptedKeep_firstLetters(correctLetter, otherLetters, adaptedOptionCount) ==
  Take(ALL_LETTERS, adaptedOptionCount)

\* const adaptedKeep = [correctLetter, ...otherLetters.slice(0, Math.max(1, n - 1))]
AdaptedKeep(correctLetter, otherLetters, adaptedOptionCount) ==
  <<correctLetter>>
    \o Take(otherLetters, IF adaptedOptionCount - 1 > 1 THEN adaptedOptionCount - 1 ELSE 1)

\* faulty variant: the options kept are lettered afresh from A
AdaptedOptions_relettered(options, adaptedKeep) ==
  LET kept == SubSeqAt(options, {k \in 1..Len(options) : options[k].id \in Range(adaptedKeep)})
  IN AsSeq([k \in 1..Len(kept) |-> option(ALL_LETTERS[k], kept[k].text)])

\* options.filter((o) => adaptedKeep.includes(o.id))
AdaptedOptions(options, adaptedKeep) ==
  SubSeqAt(options, {k \in 1..Len(options) : options[k].id \in Range(adaptedKeep)})

\* arr.filter((d) => d && d !== text)
Without(arr, text) == SubSeqAt(arr, {k \in 1..Len(arr) : arr[k] # <<>> /\ arr[k] # text})

makeMcq(id, chunkId, promptStd, promptAdp, correctText, distractorTexts, correctLetter, adaptedOptionCount) ==
  LET pool == Without(unique(distractorTexts), correctText)
      otherLetters == SubSeqAt(ALL_LETTERS, {k \in DOMAIN ALL_LETTERS :
                                               ALL_LETTERS[k] # correctLetter})
      fillOther == AsSeq([i \in 1..Len(otherLetters) |->
                      IF i <= Len(pool) /\ pool[i] # <<>> THEN pool[i]
                      ELSE OptionPrefix \o DecimalString(i)])
      fill == [L \in Range(ALL_LETTERS) |->
                 IF L = correctLetter THEN correctText
                 ELSE fillOther[CHOOSE i \in DOMAIN otherLetters : otherLetters[i] = L]]
      options == AsSeq([k \in 1..Len(ALL_LETTERS) |-> option(ALL_LETTERS[k], fill[ALL_LETTERS[k]])])
      adaptedKeep == AdaptedKeep(correctLetter, otherLetters, adaptedOptionCount)
  IN [id |-> id,
      type |-> "detail_mcq",
      chunkId |-> chunkId,
      answer |-> correctLetter,
      standard |-> [prompt |-> promptStd, options |-> options],
      adapted |-> [prompt |-> promptAdp, options |-> AdaptedOptions(options, adaptedKeep)]]

RECURSIVE ShuffleFrom(_, _, _)
\* for (let i = a.length - 1; i > 0; i--) swap a[i] and a[j], j = draws[i]
ShuffleFrom(a, i, draws) ==
  IF i <= 0 THEN a
  ELSE ShuffleFrom([a EXCEPT ![i + 1] = a[draws[i] + 1], ![draws[i] + 1] = a[i + 1]],
                   i - 1, draws)

\* shuffle(arr), draws[i] being the value of Math.floor(Math.random() * (i + 1))
shuffle(arr, draws) == ShuffleFrom(arr, Len(arr) - 1, draws)

\* the outcomes of the random draws one shuffle of n elements makes
DrawsFor(n) == {d \in [1..(n - 1) -> 0..(n - 1)] : \A i \in 1..(n - 1) : d[i] <= i}

\* faulty variant: the adapted side lists the items in their correct order
makeOrder_adaptedInOrder(id, items, adaptedHint, draws) ==
  [id |-> id,
   type |-> "order",
   answer |-> items,
   standard |-> [prompt |-> OrderPrompt, items |-> shuffle(items, draws)],
   adapted |-> [prompt |-> OrderPrompt \o <<" ">> \o adaptedHint, items |-> items]]

makeOrder(id, items, adaptedHint, draws) ==
  LET scrambled == shuffle(items, draws)
  IN [id |-> id,
      type |-> "order",
      answer |-> items,
      standard |-> [prompt |-> OrderPrompt, items |-> scrambled],
      adapted |-> [prompt |-> OrderPrompt \o <<" ">> \o adaptedHint, items |-> scrambled]]

\* arr.indexOf(x): 0-based, -1 when absent
IndexOf(arr, x) ==
  IF \E k \in 1..Len(arr) : arr[k] = x
  THEN Min({k \in 1..Len(arr) : arr[k] = x}) - 1
  ELSE -1

\* faulty variant: the answer indexes the labels as they were before the shuffle
MatchAnswer_unshuffled(picks, right) == AsSeq([i \in 1..Len(picks) |-> i - 1])

\* const answer = picks.map((p) => right.indexOf(p.chunkLabel))
MatchAnswer(picks, right) == AsSeq([i \in 1..Len(picks) |-> IndexOf(right, picks[i].chunkLabel)])

makeMatchAnchorsToChunks(id, picks, draws) ==
  LET left == AsSeq([i \in 1..Len(picks) |-> picks[i].anchor])
      right == shuffle(AsSeq([i \in 1..Len(picks) |-> picks[i].chunkLabel]), draws)
  IN [id |-> id,
      type |-> "match",
      answer |-> MatchAnswer(picks, right),
      standard |-> [prompt |-> MatchPromptStd, left |-> left, right |-> right],
      adapted |-> [prompt |-> MatchPromptAdp, left |-> left, right |-> right]]

\* faulty variant: a true/false item that also carries an option list
makeTf_withOptions(id, chunkId, statement, answer, level) ==
  [id |-> id,
   type |-> "detail_tf",
   chunkId |-> chunkId,
   answer |-> answer,
   standard |-> [prompt |-> statement,
                 options |-> <<option("T", <<"T">>), option("F", <<"F">>)>>],
   adapted |-> [prompt |-> statement,
                options |-> <<option("T", <<"T">>), option("F", <<"F">>)>>]]

makeTf(id, chunkId, statement, answer, level) ==
  [id |-> id,
   type |-> "detail_tf",
   chunkId |-> chunkId,
   answer |-> answer,
   standard |-> [prompt |-> statement],
   adapted |-> [prompt |-> IF levelAtMost(level, "A2")
                           THEN statement \o TfHintLow
                           ELSE statement \o TfHintHigh]]

(* --------------------- per-category generation rules -------------------- *)
GistActivity(ctx) ==
  LET top == Take(ctx.anchorPool, 4)
      theme == IF Join(top, CommaSpace) # <<>> THEN Join(top, CommaSpace) ELSE GistTheme
      gistCorrectLetter == IF levelAtMost(ctx.level, "A1") THEN "A" ELSE "B"
      gistAdaptCount == IF levelAtMost(ctx.level, "A1") THEN 2
                        ELSE IF levelAtMost(ctx.level, "A2") THEN 3 ELSE 4
      gistAct == makeMcq(<<"g","i","s","t">>, UndefinedText, GistPromptStd, GistPromptAdp,
                         GistPrefix \o theme,
                         <<GistDistractor1, GistDistractor2, GistDistractor3>>,
                         gistCorrectLetter, gistAdaptCount)
  IN [gistAct EXCEPT !.type = "gist_mcq"]

ChunkKeys(ctx) ==
  AsSeq([i \in 1..Len(ctx.chunks) |-> pickChunkKey(ctx.chunks[i], ctx.level, ctx.phrasePool)])

\* faulty variant: never more than four detail items
MaxDetailFor_four(level) == IF levelAtMost(level, "A1") THEN 3 ELSE 4

MaxDetailFor(level) ==
  IF levelAtMost(level, "A1") THEN 3
  ELSE IF levelAtMost(level, "A2") THEN 4
  ELSE IF levelAtMost(level, "B1") THEN 5
  ELSE IF levelAtMost(level, "B2") THEN 6 ELSE 7

\* faulty variant: B1 already shows all four options
DetailAdaptedCount_fourAtB1(level) ==
  IF levelAtMost(level, "A1") THEN 2
  ELSE IF levelAtMost(level, "A2") THEN 3 ELSE 4

DetailAdaptedCount(level) ==
  IF levelAtMost(level, "A1") THEN 2
  ELSE IF levelAtMost(level, "A2") THEN 3
  ELSE IF levelAtMost(level, "B1") THEN 3 ELSE 4

\* faulty variant: the correct letter cycles through A, B, C only
DetailActivity_threeLetters(ctx, keys, i) ==
  LET c == ctx.chunks[i + 1]
      key == keys[i + 1]
      others == SubSeqAt(keys, (1..Len(keys)) \ {i + 1})
      distractors ==
        Without(unique(others \o ctx.anchorPool \o ctx.phrasePool
                         \o <<FillerDate, FillerPlace, FillerName>>), key)
      stem == IF levelAtMost(ctx.level, "A2") THEN DetailPromptLow ELSE DetailPromptHigh
  IN makeMcq(<<"d">> \o DecimalString(i + 1), c.id,
             c.label \o stem, c.label \o stem \o DetailPromptHint,
             key, distractors, ALL_LETTERS[(i % 3) + 1], DetailAdaptedCount(ctx.level))

\* the i-th detail item, i counted from 0 as in the source
DetailActivity(ctx, keys, i) ==
  LET c == ctx.chunks[i + 1]
      key == keys[i + 1]
      others == SubSeqAt(keys, (1..Len(keys)) \ {i + 1})
      distractors ==
        Without(unique(others \o ctx.anchorPool \o ctx.phrasePool
                         \o <<FillerDate, FillerPlace, FillerName>>), key)
      stem == IF levelAtMost(ctx.level, "A2") THEN DetailPromptLow ELSE DetailPromptHigh
  IN makeMcq(<<"d">> \o DecimalString(i + 1), c.id,
             c.label \o stem, c.label \o stem \o DetailPromptHint,
             key, distractors, ALL_LETTERS[(i % 4) + 1], DetailAdaptedCount(ctx.level))

DetailActivities(ctx) ==
  LET maxDetail == MaxDetailFor(ctx.level)
      detailCount == IF maxDetail < Len(ctx.chunks) THEN maxDetail ELSE Len(ctx.chunks)
      keys == ChunkKeys(ctx)
  IN AsSeq([k \in 1..detailCount |-> DetailActivity(ctx, keys, k - 1)])

\* faulty variant: the next chunk without the wrap-around
TfOtherIndex_noWrap(i, n) == i + 1

\* the index (from 0) of the chunk whose key the false statement cites
TfOtherIndex(i, n) == (i + 1) % n

\* faulty variant: never more than two true/false items
TfCount_two(ctx) == IF 2 < Len(ctx.chunks) THEN 2 ELSE Len(ctx.chunks)

TfCount(ctx) ==
  LET n == IF levelAtMost(ctx.level, "A2") THEN 2 ELSE 3
  IN IF n < Len(ctx.chunks) THEN n ELSE Len(ctx.chunks)

\* pickChunkKey(other) reads other.text: a TypeError when chunks[...] is undefined
TfThrows(ctx) ==
  \E i \in 0..(TfCount(ctx) - 1) :
    TfOtherIndex(i, Len(ctx.chunks)) \notin 0..(Len(ctx.chunks) - 1)

\* faulty variant: the first statement is true like the others
TfActivity_allTrue(ctx, keys, i) ==
  LET c == ctx.chunks[i + 1]
      statement == c.label \o (IF levelAtMost(ctx.level, "A2") THEN TfLow ELSE TfHigh)
                     \o keys[i + 1] \o TfClose
  IN makeTf(<<"t","f">> \o DecimalString(i + 1), c.id, statement, "T", ctx.level)

TfActivity(ctx, keys, i) ==
  LET c == ctx.chunks[i + 1]
      trueKey == keys[i + 1]
      o == TfOtherIndex(i, Len(ctx.chunks))
      falseKey == IF o \in 0..(Len(keys) - 1) THEN keys[o + 1] ELSE UndefinedText
      isFalse == i = 0 /\ Len(ctx.chunks) >= 2
      phrase == IF isFalse THEN falseKey ELSE trueKey
      statement == c.label \o (IF levelAtMost(ctx.level, "A2") THEN TfLow ELSE TfHigh)
                     \o phrase \o TfClose
  IN makeTf(<<"t","f">> \o DecimalString(i + 1), c.id, statement,
            IF isFalse THEN "F" ELSE "T", ctx.level)

TfActivities(ctx) ==
  LET keys == ChunkKeys(ctx)
  IN AsSeq([k \in 1..TfCount(ctx) |-> TfActivity(ctx, keys, k - 1)])

\* faulty variant: the labels are taken from the second chunk on
OrderItems_fromSecond(ctx) ==
  LET n == IF levelAtMost(ctx.level, "A2") THEN 3 ELSE 4
      head == Take(Tail(ctx.chunks), n)
  IN AsSeq([k \in 1..Len(head) |-> head[k].label])

OrderItems(ctx) ==
  LET n == IF levelAtMost(ctx.level, "A2") THEN 3 ELSE 4
      head == Take(ctx.chunks, n)
  IN AsSeq([k \in 1..Len(head) |-> head[k].label])

RECURSIVE PicksFrom(_, _, _, _)
\* for (let i = 0; i < chunks.length && picks.length < 4; i++) ...
PicksFrom(chunks, keys, i, picks) ==
  IF ~(i < Len(chunks) /\ Len(picks) < 4) THEN picks
  ELSE LET a == keys[i + 1] IN
       IF a = <<>> \/ \E k \in 1..Len(picks) : picks[k].anchor = a
       THEN PicksFrom(chunks, keys, i + 1, picks)
       ELSE PicksFrom(chunks, keys, i + 1,
                      Append(picks, [anchor |-> a, chunkLabel |-> chunks[i + 1].label]))

\* faulty variant: one pick per chunk, repeated keys included
MatchPicks_everyChunk(ctx) ==
  LET keys == ChunkKeys(ctx)
      head == Take(ctx.chunks, 4)
  IN AsSeq([k \in 1..Len(head) |-> [anchor |-> keys[k], chunkLabel |-> head[k].label]])

MatchPicks(ctx) == PicksFrom(ctx.chunks, ChunkKeys(ctx), 0, <<>>)

SummaryActivity(ctx) ==
  LET texts == AsSeq([i \in 1..Len(ctx.chunks) |-> ctx.chunks[i].text])
      summaryCorrect == SummaryPrefix \o cleanSnippet(Join(texts, <<" ">>), 80)
      correctLetter == ALL_LETTERS[((Len(ctx.chunks) + 1) % 4) + 1]
      adaptedCount == IF levelAtMost(ctx.level, "A2") THEN 2 ELSE 3
      sum == makeMcq(<<"s","u","m","m","a","r","y">>, UndefinedText,
                     SummaryPromptStd, SummaryPromptAdp, summaryCorrect,
                     <<SummaryDistractor1, SummaryDistractor2, SummaryDistractor3>>,
                     correctLetter, adaptedCount)
  IN [sum EXCEPT !.type = "summary_mcq"]

\* everything buildLocalListeningPack derives from the script and the level
\* alone: the chunks, the pools and the content of each category
RecipeFrom(ctx) ==
  [ctx |-> ctx,
   gist |-> GistActivity(ctx),
   keys |-> ChunkKeys(ctx),
   details |-> DetailActivities(ctx),
   tfs |-> TfActivities(ctx),
   tfThrows |-> TfThrows(ctx),
   orderItems |-> OrderItems(ctx),
   picks |-> MatchPicks(ctx),
   summary |-> SummaryActivity(ctx)]

Recipe(script, level) == RecipeFrom(Context(script, level))

(* --------------------------- block selection ---------------------------- *)
QuestionFocuses == {"balanced", "whowhatwhere", "vocab_phrases", "text_structure", "exam_style"}
ExerciseBlockIds == {"gist_main", "detail", "vocabulary", "true_false", "cloze_gapfill", "ordering"}

\* the blocks the exercise preset selects for a level and a focus
defaultBlocksFor(level, focus) ==
  IF focus = "whowhatwhere"
  THEN (IF levelAtMost(level, "A2")
        THEN {"gist_main", "detail", "true_false", "vocabulary"}
        ELSE {"gist_main", "detail", "true_false"})
  ELSE IF focus = "vocab_phrases" THEN {"vocabulary", "cloze_gapfill", "detail"}
  ELSE IF focus = "text_structure" THEN {"gist_main", "ordering", "detail"}
  ELSE IF focus = "exam_style"
  THEN (IF levelAtLeast(level, "B2")
        THEN {"gist_main", "detail", "true_false", "ordering", "vocabulary"}
        ELSE {"gist_main", "detail", "true_false"})
  ELSE (IF levelAtMost(level, "A2")
        THEN {"gist_main", "detail", "true_false", "vocabulary"}
        ELSE {"gist_main", "detail", "vocabulary"})

FocusOf(args) == IF args.questionFocus = Undefined THEN "balanced" ELSE args.questionFocus
hasBlockPrefs(args) == args.selectedBlocks # {}

allowGist(args) == ~hasBlockPrefs(args) \/ "gist_main" \in args.selectedBlocks
allowDetail(args) == ~hasBlockPrefs(args) \/ "detail" \in args.selectedBlocks
\* faulty variant: the focus decides even when blocks are selected
allowTrueFalse_focusOnly(args) == FocusOf(args) \in {"balanced", "exam_style"}

allowTrueFalse(args) ==
  IF hasBlockPrefs(args) THEN "true_false" \in args.selectedBlocks
  ELSE FocusOf(args) \in {"balanced", "exam_style"}
\* faulty variant: the text_structure focus does not enable ordering
allowOrder_withoutStructure(args) ==
  IF hasBlockPrefs(args) THEN "ordering" \in args.selectedBlocks
  ELSE FocusOf(args) \in {"balanced", "exam_style"}

allowOrder(args) ==
  IF hasBlockPrefs(args) THEN "ordering" \in args.selectedBlocks
  ELSE FocusOf(args) \in {"text_structure", "balanced", "exam_style"}
allowMatch(args) ==
  IF hasBlockPrefs(args) THEN "vocabulary" \in args.selectedBlocks
  ELSE FocusOf(args) \in {"vocab_phrases", "balanced", "exam_style"}
allowSummary(args) ==
  IF hasBlockPrefs(args) THEN "cloze_gapfill" \in args.selectedBlocks
  ELSE levelAtLeast(args.level, "A2")

(* ------------------------------ scripts --------------------------------- *)
\* the empty script (0 characters)
ScriptEmpty ==
  <<>>

\* a script of whitespace only (4 characters)
\*     \n 
ScriptBlank ==
  <<" "," ","\n"," ">>

\* a single sentence of 40 characters (40 characters)
\*   The train leaves the station at nine am.
ScriptOneSentence ==
  <<"T","h","e"," ","t","r","a","i","n"," ","l","e","a","v","e","s"," ","t","h","e"," ","s","t",
    "a","t","i","o","n"," ","a","t"," ","n","i","n","e"," ","a","m",".">>

\* six punctuated sentences, about 290 characters, with two phrasal verbs (272 characters)
\*   Maria works at the city library. Every morning she opens the doors at eight. Students look
\*    up old books in the reading room. Some visitors pick up a library card at the desk. In th
\*   e afternoon Maria reads stories to young children. The library closes at six in the evenin
\*   g.
ScriptLibrary ==
  <<"M","a","r","i","a"," ","w","o","r","k","s"," ","a","t"," ","t","h","e"," ","c","i","t","y",
    " ","l","i","b","r","a","r","y","."," ","E","v","e","r","y"," ","m","o","r","n","i","n","g",
    " ","s","h","e"," ","o","p","e","n","s"," ","t","h","e"," ","d","o","o","r","s"," ","a","t",
    " ","e","i","g","h","t","."," ","S","t","u","d","e","n","t","s"," ","l","o","o","k"," ","u",
    "p"," ","o","l","d"," ","b","o","o","k","s"," ","i","n"," ","t","h","e"," ","r","e","a","d",
    "i","n","g"," ","r","o","o","m","."," ","S","o","m","e"," ","v","i","s","i","t","o","r","s",
    " ","p","i","c","k"," ","u","p"," ","a"," ","l","i","b","r","a","r","y"," ","c","a","r","d",
    " ","a","t"," ","t","h","e"," ","d","e","s","k","."," ","I","n"," ","t","h","e"," ","a","f",
    "t","e","r","n","o","o","n"," ","M","a","r","i","a"," ","r","e","a","d","s"," ","s","t","o",
    "r","i","e","s"," ","t","o"," ","y","o","u","n","g"," ","c","h","i","l","d","r","e","n",".",
    " ","T","h","e"," ","l","i","b","r","a","r","y"," ","c","l","o","s","e","s"," ","a","t"," ",
    "s","i","x"," ","i","n"," ","t","h","e"," ","e","v","e","n","i","n","g",".">>

\* four long sentences, each of more than 170 characters (756 characters)
\*   The farmers market opens early on Saturday morning and the farmers bring fresh apples, che
\*   ese, bread and honey from small farms outside the town for the market visitors to taste an
\*   d buy. The science museum shows old machines and new robots, and the museum guides explain
\*    each machine slowly so that young visitors understand what the machine was built to do lo
\*   ng ago! Does the night train cross the mountains before sunrise, and does the train stop i
\*   n every village so that sleepy travellers from the valley reach their mountain village bef
\*   ore the winter storm? The football coach plans extra practice on Friday because the player
\*   s lost the last match, and the coach wants stronger passing, faster running and better tea
\*   mwork from the players on the pitch.
ScriptFourTopics ==
  <<"T","h","e"," ","f","a","r","m","e","r","s"," ","m","a","r","k","e","t"," ","o","p","e","n",
    "s"," ","e","a","r","l","y"," ","o","n"," ","S","a","t","u","r","d","a","y"," ","m","o","r",
    "n","i","n","g"," ","a","n","d"," ","t","h","e"," ","f","a","r","m","e","r","s"," ","b","r",
    "i","n","g"," ","f","r","e","s","h"," ","a","p","p","l","e","s",","," ","c","h","e","e","s",
    "e",","," ","b","r","e","a","d"," ","a","n","d"," ","h","o","n","e","y"," ","f","r","o","m",
    " ","s","m","a","l","l"," ","f","a","r","m","s"," ","o","u","t","s","i","d","e"," ","t","h",
    "e"," ","t","o","w","n"," ","f","o","r"," ","t","h","e"," ","m","a","r","k","e","t"," ","v",
    "i","s","i","t","o","r","s"," ","t","o"," ","t","a","s","t","e"," ","a","n","d"," ","b","u",
    "y","."," ","T","h","e"," ","s","c","i","e","n","c","e"," ","m","u","s","e","u","m"," ","s",
    "h","o","w","s"," ","o","l","d"," ","m","a","c","h","i","n","e","s"," ","a","n","d"," ","n",
    "e","w"," ","r","o","b","o","t","s",","," ","a","n","d"," ","t","h","e"," ","m","u","s","e",
    "u","m"," ","g","u","i","d","e","s"," ","e","x","p","l","a","i","n"," ","e","a","c","h"," ",
    "m","a","c","h","i","n","e"," ","s","l","o","w","l","y"," ","s","o"," ","t","h","a","t"," ",
    "y","o","u","n","g"," ","v","i","s","i","t","o","r","s"," ","u","n","d","e","r","s","t","a",
    "n","d"," ","w","h","a","t"," ","t","h","e"," ","m","a","c","h","i","n","e"," ","w","a","s",
    " ","b","u","i","l","t"," ","t","o"," ","d","o"," ","l","o","n","g"," ","a","g","o","!"," ",
    "D","o","e","s"," ","t","h","e"," ","n","i","g","h","t"," ","t","r","a","i","n"," ","c","r",
    "o","s","s"," ","t","h","e"," ","m","o","u","n","t","a","i","n","s"," ","b","e","f","o","r",
    "e"," ","s","u","n","r","i","s","e",","," ","a","n","d"," ","d","o","e","s"," ","t","h","e",
    " ","t","r","a","i","n"," ","s","t","o","p"," ","i","n"," ","e","v","e","r","y"," ","v","i",
    "l","l","a","g","e"," ","s","o"," ","t","h","a","t"," ","s","l","e","e","p","y"," ","t","r",
    "a","v","e","l","l","e","r","s"," ","f","r","o","m"," ","t","h","e"," ","v","a","l","l","e",
    "y"," ","r","e","a","c","h"," ","t","h","e","i","r"," ","m","o","u","n","t","a","i","n"," ",
    "v","i","l","l","a","g","e"," ","b","e","f","o","r","e"," ","t","h","e"," ","w","i","n","t",
    "e","r"," ","s","t","o","r","m","?"," ","T","h","e"," ","f","o","o","t","b","a","l","l"," ",
    "c","o","a","c","h"," ","p","l","a","n","s"," ","e","x","t","r","a"," ","p","r","a","c","t",
    "i","c","e"," ","o","n"," ","F","r","i","d","a","y"," ","b","e","c","a","u","s","e"," ","t",
    "h","e"," ","p","l","a","y","e","r","s"," ","l","o","s","t"," ","t","h","e"," ","l","a","s",
    "t"," ","m","a","t","c","h",","," ","a","n","d"," ","t","h","e"," ","c","o","a","c","h"," ",
    "w","a","n","t","s"," ","s","t","r","o","n","g","e","r"," ","p","a","s","s","i","n","g",",",
    " ","f","a","s","t","e","r"," ","r","u","n","n","i","n","g"," ","a","n","d"," ","b","e","t",
    "t","e","r"," ","t","e","a","m","w","o","r","k"," ","f","r","o","m"," ","t","h","e"," ","p",
    "l","a","y","e","r","s"," ","o","n"," ","t","h","e"," ","p","i","t","c","h",".">>

\* one sentence of about 105 characters, three times (317 characters)
\*   The garden behind the school has twelve apple trees, and the children water the garden eve
\*   ry single week. The garden behind the school has twelve apple trees, and the children wate
\*   r the garden every single week. The garden behind the school has twelve apple trees, and t
\*   he children water the garden every single week.
ScriptRepeated ==
  <<"T","h","e"," ","g","a","r","d","e","n"," ","b","e","h","i","n","d"," ","t","h","e"," ","s",
    "c","h","o","o","l"," ","h","a","s"," ","t","w","e","l","v","e"," ","a","p","p","l","e"," ",
    "t","r","e","e","s",","," ","a","n","d"," ","t","h","e"," ","c","h","i","l","d","r","e","n",
    " ","w","a","t","e","r"," ","t","h","e"," ","g","a","r","d","e","n"," ","e","v","e","r","y",
    " ","s","i","n","g","l","e"," ","w","e","e","k","."," ","T","h","e"," ","g","a","r","d","e",
    "n"," ","b","e","h","i","n","d"," ","t","h","e"," ","s","c","h","o","o","l"," ","h","a","s",
    " ","t","w","e","l","v","e"," ","a","p","p","l","e"," ","t","r","e","e","s",","," ","a","n",
    "d"," ","t","h","e"," ","c","h","i","l","d","r","e","n"," ","w","a","t","e","r"," ","t","h",
    "e"," ","g","a","r","d","e","n"," ","e","v","e","r","y"," ","s","i","n","g","l","e"," ","w",
    "e","e","k","."," ","T","h","e"," ","g","a","r","d","e","n"," ","b","e","h","i","n","d"," ",
    "t","h","e"," ","s","c","h","o","o","l"," ","h","a","s"," ","t","w","e","l","v","e"," ","a",
    "p","p","l","e"," ","t","r","e","e","s",","," ","a","n","d"," ","t","h","e"," ","c","h","i",
    "l","d","r","e","n"," ","w","a","t","e","r"," ","t","h","e"," ","g","a","r","d","e","n"," ",
    "e","v","e","r","y"," ","s","i","n","g","l","e"," ","w","e","e","k",".">>

\* a run-on text of about 400 characters without punctuation (403 characters)
\*   first we walk along the river path then we cross the wooden bridge near the old mill then 
\*   we climb the green hill behind the church then we rest beside the quiet lake then we follo
\*   w the narrow road through the forest then we reach the small harbour where the fishing boa
\*   ts wait then we buy warm bread from the bakery then we sit on the harbour wall then we wat
\*   ch the evening ferry leave and we walk home
ScriptRunOn ==
  <<"f","i","r","s","t"," ","w","e"," ","w","a","l","k"," ","a","l","o","n","g"," ","t","h","e",
    " ","r","i","v","e","r"," ","p","a","t","h"," ","t","h","e","n"," ","w","e"," ","c","r","o",
    "s","s"," ","t","h","e"," ","w","o","o","d","e","n"," ","b","r","i","d","g","e"," ","n","e",
    "a","r"," ","t","h","e"," ","o","l","d"," ","m","i","l","l"," ","t","h","e","n"," ","w","e",
    " ","c","l","i","m","b"," ","t","h","e"," ","g","r","e","e","n"," ","h","i","l","l"," ","b",
    "e","h","i","n","d"," ","t","h","e"," ","c","h","u","r","c","h"," ","t","h","e","n"," ","w",
    "e"," ","r","e","s","t"," ","b","e","s","i","d","e"," ","t","h","e"," ","q","u","i","e","t",
    " ","l","a","k","e"," ","t","h","e","n"," ","w","e"," ","f","o","l","l","o","w"," ","t","h",
    "e"," ","n","a","r","r","o","w"," ","r","o","a","d"," ","t","h","r","o","u","g","h"," ","t",
    "h","e"," ","f","o","r","e","s","t"," ","t","h","e","n"," ","w","e"," ","r","e","a","c","h",
    " ","t","h","e"," ","s","m","a","l","l"," ","h","a","r","b","o","u","r"," ","w","h","e","r",
    "e"," ","t","h","e"," ","f","i","s","h","i","n","g"," ","b","o","a","t","s"," ","w","a","i",
    "t"," ","t","h","e","n"," ","w","e"," ","b","u","y"," ","w","a","r","m"," ","b","r","e","a",
    "d"," ","f","r","o","m"," ","t","h","e"," ","b","a","k","e","r","y"," ","t","h","e","n"," ",
    "w","e"," ","s","i","t"," ","o","n"," ","t","h","e"," ","h","a","r","b","o","u","r"," ","w",
    "a","l","l"," ","t","h","e","n"," ","w","e"," ","w","a","t","c","h"," ","t","h","e"," ","e",
    "v","e","n","i","n","g"," ","f","e","r","r","y"," ","l","e","a","v","e"," ","a","n","d"," ",
    "w","e"," ","w","a","l","k"," ","h","o","m","e">>

\* eight long sentences, each of more than 170 characters (1501 characters)
\*   The farmers market opens early on Saturday morning and the farmers bring fresh apples, che
\*   ese, bread and honey from small farms outside the town for the market visitors to taste an
\*   d buy. The science museum shows old machines and new robots, and the museum guides explain
\*    each machine slowly so that young visitors understand what the machine was built to do lo
\*   ng ago! Does the night train cross the mountains before sunrise, and does the train stop i
\*   n every village so that sleepy travellers from the valley reach their mountain village bef
\*   ore the winter storm? The football coach plans extra practice on Friday because the player
\*   s lost the last match, and the coach wants stronger passing, faster running and better tea
\*   mwork from the players on the pitch. The hospital nurses start their shift at seven, and t
\*   he nurses check every patient, write careful notes and call the doctor whenever a patient 
\*   on the ward needs stronger medicine at night. The island ferry sails twice each day when t
\*   he weather is calm, and the ferry carries cars, bicycles and tired tourists across the bay
\*    to the little harbour beside the white lighthouse. The bakery oven burns from midnight un
\*   til dawn, and the bakers shape long loaves, sweet rolls and round cakes so that the bakery
\*    shelves look full when the first customers arrive hungry. The orchestra rehearses in the 
\*   concert hall on Thursday, and the conductor asks the violins to play softly while the orch
\*   estra drums wait for the loud ending of the symphony tonight.
ScriptEightTopics ==
  <<"T","h","e"," ","f","a","r","m","e","r","s"," ","m","a","r","k","e","t"," ","o","p","e","n",
    "s"," ","e","a","r","l","y"," ","o","n"," ","S","a","t","u","r","d","a","y"," ","m","o","r",
    "n","i","n","g"," ","a","n","d"," ","t","h","e"," ","f","a","r","m","e","r","s"," ","b","r",
    "i","n","g"," ","f","r","e","s","h"," ","a","p","p","l","e","s",","," ","c","h","e","e","s",
    "e",","," ","b","r","e","a","d"," ","a","n","d"," ","h","o","n","e","y"," ","f","r","o","m",
    " ","s","m","a","l","l"," ","f","a","r","m","s"," ","o","u","t","s","i","d","e"," ","t","h",
    "e"," ","t","o","w","n"," ","f","o","r"," ","t","h","e"," ","m","a","r","k","e","t"," ","v",
    "i","s","i","t","o","r","s"," ","t","o"," ","t","a","s","t","e"," ","a","n","d"," ","b","u",
    "y","."," ","T","h","e"," ","s","c","i","e","n","c","e"," ","m","u","s","e","u","m"," ","s",
    "h","o","w","s"," ","o","l","d"," ","m","a","c","h","i","n","e","s"," ","a","n","d"," ","n",
    "e","w"," ","r","o","b","o","t","s",","," ","a","n","d"," ","t","h","e"," ","m","u","s","e",
    "u","m"," ","g","u","i","d","e","s"," ","e","x","p","l","a","i","n"," ","e","a","c","h"," ",
    "m","a","c","h","i","n","e"," ","s","l","o","w","l","y"," ","s","o"," ","t","h","a","t"," ",
    "y","o","u","n","g"," ","v","i","s","i","t","o","r","s"," ","u","n","d","e","r","s","t","a",
    "n","d"," ","w","h","a","t"," ","t","h","e"," ","m","a","c","h","i","n","e"," ","w","a","s",
    " ","b","u","i","l","t"," ","t","o"," ","d","o"," ","l","o","n","g"," ","a","g","o","!"," ",
    "D","o","e","s"," ","t","h","e"," ","n","i","g","h","t"," ","t","r","a","i","n"," ","c","r",
    "o","s","s"," ","t","h","e"," ","m","o","u","n","t","a","i","n","s"," ","b","e","f","o","r",
    "e"," ","s","u","n","r","i","s","e",","," ","a","n","d"," ","d","o","e","s"," ","t","h","e",
    " ","t","r","a","i","n"," ","s","t","o","p"," ","i","n"," ","e","v","e","r","y"," ","v","i",
    "l","l","a","g","e"," ","s","o"," ","t","h","a","t"," ","s","l","e","e","p","y"," ","t","r",
    "a","v","e","l","l","e","r","s"," ","f","r","o","m"," ","t","h","e"," ","v","a","l","l","e",
    "y"," ","r","e","a","c","h"," ","t","h","e","i","r"," ","m","o","u","n","t","a","i","n"," ",
    "v","i","l","l","a","g","e"," ","b","e","f","o","r","e"," ","t","h","e"," ","w","i","n","t",
    "e","r"," ","s","t","o","r","m","?"," ","T","h","e"," ","f","o","o","t","b","a","l","l"," ",
    "c","o","a","c","h"," ","p","l","a","n","s"," ","e","x","t","r","a"," ","p","r","a","c","t",
    "i","c","e"," ","o","n"," ","F","r","i","d","a","y"," ","b","e","c","a","u","s","e"," ","t",
    "h","e"," ","p","l","a","y","e","r","s"," ","l","o","s","t"," ","t","h","e"," ","l","a","s",
    "t"," ","m","a","t","c","h",","," ","a","n","d"," ","t","h","e"," ","c","o","a","c","h"," ",
    "w","a","n","t","s"," ","s","t","r","o","n","g","e","r"," ","p","a","s","s","i","n","g",",",
    " ","f","a","s","t","e","r"," ","r","u","n","n","i","n","g"," ","a","n","d"," ","b","e","t",
    "t","e","r"," ","t","e","a","m","w","o","r","k"," ","f","r","o","m"," ","t","h","e"," ","p",
    "l","a","y","e","r","s"," ","o","n"," ","t","h","e"," ","p","i","t","c","h","."," ","T","h",
    "e"," ","h","o","s","p","i","t","a","l"," ","n","u","r","s","e","s"," ","s","t","a","r","t",
    " ","t","h","e","i","r"," ","s","h","i","f","t"," ","a","t"," ","s","e","v","e","n",","," ",
    "a","n","d"," ","t","h","e"," ","n","u","r","s","e","s"," ","c","h","e","c","k"," ","e","v",
    "e","r","y"," ","p","a","t","i","e","n","t",","," ","w","r","i","t","e"," ","c","a","r","e",
    "f","u","l"," ","n","o","t","e","s"," ","a","n","d"," ","c","a","l","l"," ","t","h","e"," ",
    "d","o","c","t","o","r"," ","w","h","e","n","e","v","e","r"," ","a"," ","p","a","t","i","e",
    "n","t"," ","o","n"," ","t","h","e"," ","w","a","r","d"," ","n","e","e","d","s"," ","s","t",
    "r","o","n","g","e","r"," ","m","e","d","i","c","i","n","e"," ","a","t"," ","n","i","g","h",
    "t","."," ","T","h","e"," ","i","s","l","a","n","d"," ","f","e","r","r","y"," ","s","a","i",
    "l","s"," ","t","w","i","c","e"," ","e","a","c","h"," ","d","a","y"," ","w","h","e","n"," ",
    "t","h","e"," ","w","e","a","t","h","e","r"," ","i","s"," ","c","a","l","m",","," ","a","n",
    "d"," ","t","h","e"," ","f","e","r","r","y"," ","c","a","r","r","i","e","s"," ","c","a","r",
    "s",","," ","b","i","c","y","c","l","e","s"," ","a","n","d"," ","t","i","r","e","d"," ","t",
    "o","u","r","i","s","t","s"," ","a","c","r","o","s","s"," ","t","h","e"," ","b","a","y"," ",
    "t","o"," ","t","h","e"," ","l","i","t","t","l","e"," ","h","a","r","b","o","u","r"," ","b",
    "e","s","i","d","e"," ","t","h","e"," ","w","h","i","t","e"," ","l","i","g","h","t","h","o",
    "u","s","e","."," ","T","h","e"," ","b","a","k","e","r","y"," ","o","v","e","n"," ","b","u",
    "r","n","s"," ","f","r","o","m"," ","m","i","d","n","i","g","h","t"," ","u","n","t","i","l",
    " ","d","a","w","n",","," ","a","n","d"," ","t","h","e"," ","b","a","k","e","r","s"," ","s",
    "h","a","p","e"," ","l","o","n","g"," ","l","o","a","v","e","s",","," ","s","w","e","e","t",
    " ","r","o","l","l","s"," ","a","n","d"," ","r","o","u","n","d"," ","c","a","k","e","s"," ",
    "s","o"," ","t","h","a","t"," ","t","h","e"," ","b","a","k","e","r","y"," ","s","h","e","l",
    "v","e","s"," ","l","o","o","k"," ","f","u","l","l"," ","w","h","e","n"," ","t","h","e"," ",
    "f","i","r","s","t"," ","c","u","s","t","o","m","e","r","s"," ","a","r","r","i","v","e"," ",
    "h","u","n","g","r","y","."," ","T","h","e"," ","o","r","c","h","e","s","t","r","a"," ","r",
    "e","h","e","a","r","s","e","s"," ","i","n"," ","t","h","e"," ","c","o","n","c","e","r","t",
    " ","h","a","l","l"," ","o","n"," ","T","h","u","r","s","d","a","y",","," ","a","n","d"," ",
    "t","h","e"," ","c","o","n","d","u","c","t","o","r"," ","a","s","k","s"," ","t","h","e"," ",
    "v","i","o","l","i","n","s"," ","t","o"," ","p","l","a","y"," ","s","o","f","t","l","y"," ",
    "w","h","i","l","e"," ","t","h","e"," ","o","r","c","h","e","s","t","r","a"," ","d","r","u",
    "m","s"," ","w","a","i","t"," ","f","o","r"," ","t","h","e"," ","l","o","u","d"," ","e","n",
    "d","i","n","g"," ","o","f"," ","t","h","e"," ","s","y","m","p","h","o","n","y"," ","t","o",
    "n","i","g","h","t",".">>

\* four sentences of about 105 characters, the second of them twice (422 characters)
\*   The market beside the river sells fresh bread and cheese, and the farmers open the market 
\*   before sunrise. The garden behind the school has twelve apple trees, and the children wate
\*   r the garden every single week. The garden behind the school has twelve apple trees, and t
\*   he children water the garden every single week. The train to the coast leaves at seven eac
\*   h morning, and the travellers board the train with heavy bags.
ScriptGardenTwice ==
  <<"T","h","e"," ","m","a","r","k","e","t"," ","b","e","s","i","d","e"," ","t","h","e"," ","r",
    "i","v","e","r"," ","s","e","l","l","s"," ","f","r","e","s","h"," ","b","r","e","a","d"," ",
    "a","n","d"," ","c","h","e","e","s","e",","," ","a","n","d"," ","t","h","e"," ","f","a","r",
    "m","e","r","s"," ","o","p","e","n"," ","t","h","e"," ","m","a","r","k","e","t"," ","b","e",
    "f","o","r","e"," ","s","u","n","r","i","s","e","."," ","T","h","e"," ","g","a","r","d","e",
    "n"," ","b","e","h","i","n","d"," ","t","h","e"," ","s","c","h","o","o","l"," ","h","a","s",
    " ","t","w","e","l","v","e"," ","a","p","p","l","e"," ","t","r","e","e","s",","," ","a","n",
    "d"," ","t","h","e"," ","c","h","i","l","d","r","e","n"," ","w","a","t","e","r"," ","t","h",
    "e"," ","g","a","r","d","e","n"," ","e","v","e","r","y"," ","s","i","n","g","l","e"," ","w",
    "e","e","k","."," ","T","h","e"," ","g","a","r","d","e","n"," ","b","e","h","i","n","d"," ",
    "t","h","e"," ","s","c","h","o","o","l"," ","h","a","s"," ","t","w","e","l","v","e"," ","a",
    "p","p","l","e"," ","t","r","e","e","s",","," ","a","n","d"," ","t","h","e"," ","c","h","i",
    "l","d","r","e","n"," ","w","a","t","e","r"," ","t","h","e"," ","g","a","r","d","e","n"," ",
    "e","v","e","r","y"," ","s","i","n","g","l","e"," ","w","e","e","k","."," ","T","h","e"," ",
    "t","r","a","i","n"," ","t","o"," ","t","h","e"," ","c","o","a","s","t"," ","l","e","a","v",
    "e","s"," ","a","t"," ","s","e","v","e","n"," ","e","a","c","h"," ","m","o","r","n","i","n",
    "g",","," ","a","n","d"," ","t","h","e"," ","t","r","a","v","e","l","l","e","r","s"," ","b",
    "o","a","r","d"," ","t","h","e"," ","t","r","a","i","n"," ","w","i","t","h"," ","h","e","a",
    "v","y"," ","b","a","g","s",".">>

\* one sentence with thirteen verb and particle pairs, the first of them twice (175 characters)
\*   We get up and go down, take in and put out, come on and look off, turn over and pick away,
\*    set back and find through, give around and make into, then keep up and get up again.
ScriptPhrasalVerbs ==
  <<"W","e"," ","g","e","t"," ","u","p"," ","a","n","d"," ","g","o"," ","d","o","w","n",","," ",
    "t","a","k","e"," ","i","n"," ","a","n","d"," ","p","u","t"," ","o","u","t",","," ","c","o",
    "m","e"," ","o","n"," ","a","n","d"," ","l","o","o","k"," ","o","f","f",","," ","t","u","r",
    "n"," ","o","v","e","r"," ","a","n","d"," ","p","i","c","k"," ","a","w","a","y",","," ","s",
    "e","t"," ","b","a","c","k"," ","a","n","d"," ","f","i","n","d"," ","t","h","r","o","u","g",
    "h",","," ","g","i","v","e"," ","a","r","o","u","n","d"," ","a","n","d"," ","m","a","k","e",
    " ","i","n","t","o",","," ","t","h","e","n"," ","k","e","e","p"," ","u","p"," ","a","n","d",
    " ","g","e","t"," ","u","p"," ","a","g","a","i","n",".">>

Scripts ==
  <<ScriptEmpty, ScriptBlank, ScriptOneSentence, ScriptLibrary, ScriptFourTopics, ScriptRepeated,
    ScriptRunOn, ScriptEightTopics, ScriptGardenTwice, ScriptPhrasalVerbs>>


\* Recipe of every script the inputs are drawn from, computed once
RecipeTable == [i \in DOMAIN Scripts, l \in Range(levels) |-> Recipe(Scripts[i], l)]

RecipeOf(script, level) ==
  RecipeTable[CHOOSE i \in DOMAIN Scripts : Scripts[i] = script, level]

(* ----------------------------- Pack Assembler --------------------------- *)
\* new Date().toISOString() at clock value now: one text per millisecond
createdAtISO(now) == now

\* faulty variant: a second field read from the clock
PackMeta_stampedTopic(title, level, textType, now) ==
  [title |-> IF title # "" THEN title ELSE "Listening Focus",
   level |-> level,
   textType |-> textType,
   topic |-> createdAtISO(now),
   createdAtISO |-> createdAtISO(now)]

PackMeta(title, level, textType, now) ==
  [title |-> IF title # "" THEN title ELSE "Listening Focus",
   level |-> level,
   textType |-> textType,
   createdAtISO |-> createdAtISO(now)]

PackAudio(audioMode, audioUrl) ==
  [mode |-> audioMode,
   voiceHint |-> "en-GB",
   url |-> IF audioMode = "url" THEN audioUrl ELSE Undefined]

\* faulty variant: ordering at every level
HasOrder_anyLevel(args, r) == allowOrder(args) /\ Len(r.ctx.chunks) >= 3

HasOrder(args, r) ==
  allowOrder(args) /\ Len(r.ctx.chunks) >= 3 /\ levelAtLeast(args.level, "A2")

HasMatch(args, r) ==
  allowMatch(args) /\ Len(r.ctx.chunks) >= 3 /\ Len(r.picks) >= 3

\* the random draws one call makes: those of the order shuffle, then those of
\* the match shuffle
DrawsOf(args, r) ==
  [order : DrawsFor(IF HasOrder(args, r) THEN Len(r.orderItems) ELSE 0),
   match : DrawsFor(IF HasMatch(args, r) THEN Len(r.picks) ELSE 0)]

RandomDraws(args) == DrawsOf(args, RecipeOf(args.script, args.level))

ListeningActivities(args, r, rnd) ==
  (IF allowGist(args) THEN <<r.gist>> ELSE <<>>)
  \o (IF allowDetail(args) THEN r.details ELSE <<>>)
  \o (IF allowTrueFalse(args) /\ Len(r.ctx.chunks) > 0 THEN r.tfs ELSE <<>>)
  \o (IF HasOrder(args, r)
      THEN <<makeOrder(<<"o","r","d","e","r","1">>, r.orderItems, OrderHint, rnd.order)>>
      ELSE <<>>)
  \o (IF HasMatch(args, r)
      THEN <<makeMatchAnchorsToChunks(<<"m","a","t","c","h","1">>, r.picks, rnd.match)>>
      ELSE <<>>)
  \o (IF allowSummary(args) /\ levelAtLeast(args.level, "A2") THEN <<r.summary>> ELSE <<>>)

\* the value the call returns, or the error it throws
PackFrom(args, r, rnd, now) ==
  IF allowTrueFalse(args) /\ Len(r.ctx.chunks) > 0 /\ r.tfThrows
  THEN [kind |-> "error"]
  ELSE [kind |-> "pack",
        meta |-> PackMeta(args.title, args.level, args.textType, now),
        audio |-> PackAudio(args.audioMode, args.audioUrl),
        chunks |-> r.ctx.chunks,
        activities |-> ListeningActivities(args, r, rnd)]

buildLocalListeningPack(args, rnd, now) ==
  PackFrom(args, RecipeOf(args.script, args.level), rnd, now)

(* ------------- the generator applied to bounded inputs ------------------ *)
\* title, textType, audioMode and audioUrl of a call
MetaArgs ==
  { [title |-> "", textType |-> Undefined, audioMode |-> "tts", audioUrl |-> "http://a/b.mp3"],
    [title |-> "Trains", textType |-> "Article", audioMode |-> "url", audioUrl |-> "http://a/b.mp3"] }

BlockSets == {b \in SUBSET ExerciseBlockIds : Cardinality(b) <= MaxBlocks}

\* every focus when no block is selected; with blocks selected no branch
\* reads the focus, and it is drawn from one focus that would allow every
\* category and one that would allow none of the optional ones
FocusChoices(b) ==
  IF b = {} THEN QuestionFocuses \cup {Undefined} ELSE {"balanced", "whowhatwhere"}

\* the title, text type and audio fields reach only pack.meta and pack.audio:
\* the two scripts with the most shuffles are drawn with the untitled record alone
MetaChoices(s) ==
  {m \in MetaArgs : s \in {ScriptEightTopics, ScriptFourTopics} => m.title = ""}

ArgSets ==
  UNION { { [title |-> m.title, level |-> l, textType |-> m.textType, script |-> s,
             audioMode |-> m.audioMode, audioUrl |-> m.audioUrl,
             questionFocus |-> f, selectedBlocks |-> b] :
              m \in MetaChoices(s), l \in Range(levels), f \in FocusChoices(b) } :
          s \in Range(Scripts), b \in BlockSets }

NoCall == [kind |-> "none"]
NoChunking == [sentences |-> <<>>, greedy |-> <<>>, final |-> <<>>]
NoArgs == [text |-> <<>>, targetChars |-> 1]
NoTexts == [listeningScript |-> <<>>, adaptedReading |-> <<>>, inputText |-> <<>>,
            listeningPack |-> [kind |-> "null"]]
NoPayload == [title |-> <<>>, items |-> <<>>]

\* the values of the variables a specification leaves alone
GenUnused ==
  /\ ui = NoTexts /\ resp = NoCall /\ listeningPack = [kind |-> "null"]
  /\ listeningStatus = "" /\ gpc = "unused"
HtmlUnused == hin = NoPayload /\ hout = <<>> /\ hpc = "unused"
NavUnused ==
  /\ pack = NoCall /\ state = [activityIndex |-> 0, currentChunkIndex |-> 0]
  /\ stepLabel = [step |-> 0, total |-> 0]

Init ==
  /\ callArgs \in ArgSets
  /\ clock = 0
  /\ seed = [order |-> <<>>, match |-> <<>>]
  /\ ret = NoCall
  /\ ret2 = NoCall
  /\ pc = "ready"
  /\ cin = NoArgs /\ cout = NoChunking /\ cpc = "unused"
  /\ GenUnused /\ HtmlUnused /\ NavUnused

\* one call of buildLocalListeningPack, its shuffles drawing the seed
Build ==
  /\ pc = "ready"
  /\ \E d \in RandomDraws(callArgs) :
       /\ seed' = d
       /\ ret' = buildLocalListeningPack(callArgs, d, clock)
  /\ pc' = "built"
  /\ UNCHANGED <<callArgs, clock, ret2, cin, cout, cpc, genVars, htmlVars, navVars>>

\* a later call with identical arguments and the random source replayed, the
\* clock having advanced by dt milliseconds: none, or MaxClock of them
BuildAgain ==
  /\ pc = "built"
  /\ \E dt \in {0, MaxClock} :
       /\ clock' = clock + dt
       /\ ret2' = buildLocalListeningPack(callArgs, seed, clock + dt)
  /\ pc' = "again"
  /\ UNCHANGED <<callArgs, seed, ret, cin, cout, cpc, genVars, htmlVars, navVars>>

Next == Build \/ BuildAgain

Spec == Init /\ [][Next]_vars

NoPackArgs == CHOOSE a \in ArgSets : a.script = <<>> /\ a.selectedBlocks = {}

(* ------------------- the chunker applied to bounded inputs -------------- *)
ChunkAlphabet == {"a", " ", "\n", ".", "?", "!", "|"}

RECURSIVE SeqsUpTo(_, _)
SeqsUpTo(A, n) ==
  IF n = 0 THEN {<<>>}
  ELSE LET shorter == SeqsUpTo(A, n - 1)
       IN shorter \cup {Append(s, c) : s \in {t \in shorter : Len(t) = n - 1}, c \in A}

ChunkInit ==
  /\ cin \in [text : SeqsUpTo(ChunkAlphabet, MaxLen), targetChars : 1..MaxT]
  /\ cout = [sentences |-> <<>>, greedy |-> <<>>, final |-> <<>>]
  /\ cpc = "input"
  /\ callArgs = NoPackArgs /\ clock = 0 /\ seed = [order |-> <<>>, match |-> <<>>]
  /\ ret = NoCall /\ ret2 = NoCall /\ pc = "unused"
  /\ GenUnused /\ HtmlUnused /\ NavUnused

Chunk ==
  /\ cpc = "input"
  /\ cout' = [sentences |-> splitSentencesRough(cin.text),
              greedy |-> GreedyChunks(cin.text, cin.targetChars),
              final |-> chunkForWorkingMemory(cin.text, cin.targetChars)]
  /\ cpc' = "chunked"
  /\ UNCHANGED <<cin, callArgs, clock, seed, ret, ret2, pc, genVars, htmlVars, navVars>>

ChunkNext == Chunk

SpecChunk == ChunkInit /\ [][ChunkNext]_vars

(* ------------- generateListeningPack and the route it calls ------------- *)
\* listeningScript || adaptedReading || inputText: the first text that is not
\* the empty string (a text of blanks is not empty)
ScriptSource(u) ==
  IF u.listeningScript # <<>> THEN u.listeningScript
  ELSE IF u.adaptedReading # <<>> THEN u.adaptedReading
  ELSE u.inputText

\* the pack the remote model writes; its content is the model's own
RemotePack ==
  [kind |-> "pack",
   meta |-> [title |-> "Remote", level |-> "B1", createdAtISO |-> 0],
   audio |-> [mode |-> "tts"],
   chunks |-> <<>>,
   activities |-> <<>>]

\* what the route finds on the server: whether OPENAI_API_KEY is set, and how
\* the call of the model ends
ServerEnvs ==
  [apiKey : BOOLEAN, upstream : {"pack", "http_error", "bad_json", "bad_shape", "throws"}]

\* POST of /api/listening-pack for a request whose script is `script`
POST(script, env) ==
  IF Trim(script) = <<>>
  THEN [status |-> 400, error |-> "Missing 'script' in request body."]
  ELSE IF ~env.apiKey
  THEN [status |-> 501, error |-> "Missing OPENAI_API_KEY on the server (use local fallback)."]
  ELSE IF env.upstream = "throws"
  THEN [status |-> 500, error |-> "Unexpected error in listening-pack."]
  ELSE IF env.upstream = "http_error"
  THEN [status |-> 502, error |-> "OpenAI API request failed (listening-pack)."]
  ELSE IF env.upstream = "bad_json"
  THEN [status |-> 502, error |-> "Could not parse AI JSON output (listening-pack)."]
  ELSE IF env.upstream = "bad_shape"
  THEN [status |-> 502, error |-> "AI output did not match expected ListeningPack shape."]
  ELSE [status |-> 200, pack |-> RemotePack]

\* the Response fetch resolves with: res.ok is a status in 200..299
Delivered(answer) ==
  [kind |-> "http", status |-> answer.status, ok |-> answer.status \in 200..299,
   readable |-> TRUE, body |-> answer]

\* a 200 whose body is not JSON (res.json() rejects)
UnreadableAnswer ==
  [kind |-> "http", status |-> 200, ok |-> TRUE, readable |-> FALSE,
   body |-> [status |-> 200]]

\* err.message of a rejected fetch or of a rejected res.json()
ErrorMessages == {"Failed to fetch", ""}

\* err?.message || "Listening pack generation failed."
CaughtStatus(message) ==
  IF message # "" THEN message ELSE "Listening pack generation failed."

\* listeningTitle.trim() || articleTitle.trim() || "Listening Focus"
effectiveTitle(title) == IF title # "" THEN title ELSE "Listening Focus"

\* the arguments generateListeningPack gives buildLocalListeningPack
LocalArgs(u, args) ==
  [args EXCEPT !.script = Trim(ScriptSource(u)),
               !.title = effectiveTitle(args.title),
               !.audioUrl = IF args.audioMode = "url" THEN args.audioUrl ELSE Undefined]

\* faulty variant: the fallback runs whatever the script is
NoScript_never(script) == FALSE

\* if (!script) throw new Error("No listening script text available.")
NoScript(script) == script = <<>>

\* setListeningPack is not called
KeepPack == [kind |-> "keep"]

\* the end of the fallback, `built` being what buildLocalListeningPack returned
\* or threw
LocalFallback(built) ==
  IF built.kind = "error"
  THEN [pack |-> KeepPack, status |-> CaughtStatus("Cannot read properties of undefined"),
        local |-> built]
  ELSE [pack |-> built, status |-> "Listening pack generated (local fallback).",
        local |-> built]

\* what generateListeningPack does once fetch has settled with `r`: the pack
\* and the status it sets, and what buildLocalListeningPack returned when it
\* was called
Settled(u, args, r, rnd, now) ==
  IF r.kind = "failed"
  THEN [pack |-> KeepPack, status |-> CaughtStatus(r.message), local |-> NoCall]
  ELSE IF r.ok
  THEN IF r.readable
       THEN [pack |-> r.body.pack, status |-> "Listening pack generated (API).",
             local |-> NoCall]
       ELSE [pack |-> KeepPack, status |-> CaughtStatus("Unexpected token < in JSON"),
             local |-> NoCall]
  ELSE IF NoScript(Trim(ScriptSource(u)))
  THEN [pack |-> KeepPack, status |-> CaughtStatus("No listening script text available."),
        local |-> NoCall]
  ELSE LocalFallback(buildLocalListeningPack(LocalArgs(u, args), rnd, now))

\* the texts the component holds when generateListeningPack is called
PaddedSentence == <<" ">> \o ScriptOneSentence \o <<"\n">>
GenTextChoices == {<<>>, ScriptBlank, PaddedSentence, ScriptLibrary}
OldPack == [RemotePack EXCEPT !.meta.title = "Earlier"]
GenTexts ==
  [listeningScript : GenTextChoices, adaptedReading : GenTextChoices,
   inputText : GenTextChoices, listeningPack : {[kind |-> "null"], OldPack}]
GenArgs ==
  {a \in ArgSets : a.script = <<>> /\ a.questionFocus = "balanced"
                   /\ a.selectedBlocks \in {{}, {"true_false"}}}

GenInit ==
  /\ ui \in GenTexts
  /\ callArgs \in GenArgs
  /\ listeningPack = ui.listeningPack
  /\ listeningStatus = ""
  /\ resp = NoCall
  /\ gpc = "idle"
  /\ clock = 0 /\ seed = [order |-> <<>>, match |-> <<>>]
  /\ ret = NoCall /\ ret2 = NoCall /\ pc = "unused"
  /\ cin = NoArgs /\ cout = NoChunking /\ cpc = "unused"
  /\ HtmlUnused /\ NavUnused

\* generateListeningPack up to its await of fetch
Send ==
  /\ gpc = "idle"
  /\ listeningStatus' = "Generating Listening Focus pack..."
  /\ gpc' = "waiting"
  /\ UNCHANGED <<ui, resp, listeningPack, callArgs, clock, seed, ret, ret2, pc,
                 cin, cout, cpc, htmlVars, navVars>>

\* the route handles the request and its answer reaches the client
Route ==
  /\ gpc = "waiting" /\ resp = NoCall
  /\ \E env \in ServerEnvs : resp' = Delivered(POST(ScriptSource(ui), env))
  /\ UNCHANGED <<ui, listeningPack, listeningStatus, gpc, callArgs, clock, seed,
                 ret, ret2, pc, cin, cout, cpc, htmlVars, navVars>>

\* the request fails: fetch rejects
RequestFails ==
  /\ gpc = "waiting" /\ resp = NoCall
  /\ \E m \in ErrorMessages : resp' = [kind |-> "failed", message |-> m]
  /\ UNCHANGED <<ui, listeningPack, listeningStatus, gpc, callArgs, clock, seed,
                 ret, ret2, pc, cin, cout, cpc, htmlVars, navVars>>

\* an answer arrives whose body cannot be read as JSON
BodyUnreadable ==
  /\ gpc = "waiting" /\ resp = NoCall
  /\ resp' = UnreadableAnswer
  /\ UNCHANGED <<ui, listeningPack, listeningStatus, gpc, callArgs, clock, seed,
                 ret, ret2, pc, cin, cout, cpc, htmlVars, navVars>>

\* the state generateListeningPack leaves, given what Settled decided
Store(out) ==
  /\ listeningPack' = IF out.pack = KeepPack THEN listeningPack ELSE out.pack
  /\ listeningStatus' = out.status
  /\ ret' = out.local

\* generateListeningPack from the settling of fetch to its end
Receive ==
  /\ gpc = "waiting" /\ resp # NoCall
  /\ \E d \in RandomDraws(LocalArgs(ui, callArgs)) :
       /\ seed' = d
       /\ Store(Settled(ui, callArgs, resp, d, clock))
  /\ gpc' = "done"
  /\ UNCHANGED <<ui, resp, callArgs, clock, ret2, pc, cin, cout, cpc, htmlVars, navVars>>

GenNext == Send \/ Route \/ RequestFails \/ BodyUnreadable \/ Receive

SpecGen == GenInit /\ [][GenNext]_vars

(* ------------------- the payload embedded in the HTML ------------------- *)
\* longest text drawn for the title of an embedded payload
MaxJsonLen == 3

\* the characters JSON.stringify escapes inside a string, as it writes them
QuoteJsonChar(c) ==
  IF c = "\"" THEN <<"\\", "\"">>
  ELSE IF c = "\\" THEN <<"\\", "\\">>
  ELSE IF c = "\n" THEN <<"\\", "n">>
  ELSE <<c>>

\* JSON.stringify of a string
JsonString(str) ==
  <<"\"">> \o Flatten(AsSeq([k \in 1..Len(str) |-> QuoteJsonChar(str[k])])) \o <<"\"">>

\* JSON.stringify of an array of strings
JsonArray(arr) ==
  <<"[">> \o Join(AsSeq([k \in 1..Len(arr) |-> JsonString(arr[k])]), <<",">>) \o <<"]">>

TitleKey == <<"t","i","t","l","e">>
ItemsKey == <<"i","t","e","m","s">>

\* JSON.stringify(obj) for a payload {title, items}
JSONstringify(obj) ==
  <<"{">> \o JsonString(TitleKey) \o <<":">> \o JsonString(obj.title) \o <<",">>
    \o JsonString(ItemsKey) \o <<":">> \o JsonArray(obj.items) \o <<"}">>

EscapedLt == <<"\\", "u", "0", "0", "3", "c">>

\* text.replace(/</g, "\\u003c")
ReplaceLt(text) ==
  Flatten(AsSeq([k \in 1..Len(text) |-> IF text[k] = "<" THEN EscapedLt ELSE <<text[k]>>]))

\* faulty variant: the JSON text is embedded as it is
safeSerializeForHtml_unescaped(obj) == JSONstringify(obj)

safeSerializeForHtml(obj) == ReplaceLt(JSONstringify(obj))

HexDigits == <<"0","1","2","3","4","5","6","7","8","9","a","b","c","d","e","f">>
HexValue(c) == (CHOOSE k \in 1..Len(HexDigits) : HexDigits[k] = Lower(c)) - 1
IsHex(c) == \E k \in 1..Len(HexDigits) : HexDigits[k] = Lower(c)

\* the character of a \uXXXX escape, for the code units the payloads use
CharOfCode(n) ==
  IF n = 60 THEN "<" ELSE IF n = 47 THEN "/" ELSE IF n = 92 THEN "\\"
  ELSE IF n = 34 THEN "\"" ELSE IF n = 97 THEN "a" ELSE "?"

RECURSIVE ScanLiteral(_, _, _, _, _, _)
\* the script engine reading the embedded literal from position i: `lits` are
\* the string literals read so far, `cur` the one being read when inStr, and
\* `skel` the text outside string literals
ScanLiteral(text, i, inStr, cur, lits, skel) ==
  IF i > Len(text) THEN [lits |-> lits, skel |-> skel, closed |-> ~inStr]
  ELSE IF ~inStr
  THEN IF text[i] = "\""
       THEN ScanLiteral(text, i + 1, TRUE, <<>>, lits, skel)
       ELSE ScanLiteral(text, i + 1, FALSE, cur, lits, Append(skel, text[i]))
  ELSE IF text[i] = "\""
  THEN ScanLiteral(text, i + 1, FALSE, <<>>, Append(lits, cur), skel)
  ELSE IF text[i] # "\\"
  THEN ScanLiteral(text, i + 1, TRUE, Append(cur, text[i]), lits, skel)
  ELSE IF i + 1 > Len(text)
  THEN [lits |-> lits, skel |-> skel, closed |-> FALSE]
  ELSE IF text[i + 1] = "n"
  THEN ScanLiteral(text, i + 2, TRUE, Append(cur, "\n"), lits, skel)
  ELSE IF text[i + 1] = "u" /\ i + 5 <= Len(text)
          /\ \A k \in (i + 2)..(i + 5) : IsHex(text[k])
  THEN ScanLiteral(text, i + 6, TRUE,
                   Append(cur, CharOfCode(4096 * HexValue(text[i + 2]) + 256 * HexValue(text[i + 3])
                                            + 16 * HexValue(text[i + 4]) + HexValue(text[i + 5]))),
                   lits, skel)
  ELSE ScanLiteral(text, i + 2, TRUE, Append(cur, text[i + 1]), lits, skel)

\* the text between the string literals of a payload of n items
PayloadSkeleton(n) ==
  <<"{", ":", ",", ":", "[">> \o AsSeq([k \in 1..(IF n > 0 THEN n - 1 ELSE 0) |-> ","])
    \o <<"]", "}">>

\* the object `var pack = <text>;` evaluates to, from what ScanLiteral read
PayloadRead(scan) ==
  IF scan.closed /\ Len(scan.lits) >= 3
     /\ scan.lits[1] = TitleKey /\ scan.lits[3] = ItemsKey
     /\ scan.skel = PayloadSkeleton(Len(scan.lits) - 3)
  THEN [title |-> scan.lits[2], items |-> SubSeq(scan.lits, 4, Len(scan.lits))]
  ELSE [error |-> "SyntaxError"]

ParseEmbedded(text) == PayloadRead(ScanLiteral(text, 1, FALSE, <<>>, <<>>, <<>>))

JsonAlphabet == {"a", "<", "/", "\\", "\""}
ClosingTag == <<"<","/","s","c","r","i","p","t",">">>
TitleChoices == SeqsUpTo(JsonAlphabet, MaxJsonLen) \cup {ClosingTag, EscapedLt, <<"\n", "<">>}
ItemChoices == {<<>>, <<"<">>, <<"a", "\\", "<">>, ClosingTag}
ItemLists == {<<>>} \cup {<<x>> : x \in ItemChoices} \cup {<<x, y>> : x \in ItemChoices, y \in ItemChoices}

HtmlInit ==
  /\ hin \in [title : TitleChoices, items : ItemLists]
  /\ hout = <<>>
  /\ hpc = "payload"
  /\ callArgs = NoPackArgs /\ clock = 0 /\ seed = [order |-> <<>>, match |-> <<>>]
  /\ ret = NoCall /\ ret2 = NoCall /\ pc = "unused"
  /\ cin = NoArgs /\ cout = NoChunking /\ cpc = "unused"
  /\ GenUnused /\ NavUnused

\* const packJson = safeSerializeForHtml(pack), embedded as `var pack = ...;`
Embed ==
  /\ hpc = "payload"
  /\ hout' = safeSerializeForHtml(hin)
  /\ hpc' = "embedded"
  /\ UNCHANGED <<hin, callArgs, clock, seed, ret, ret2, pc, cin, cout, cpc, genVars,
                 navVars>>

HtmlNext == Embed

SpecHtml == HtmlInit /\ [][HtmlNext]_vars

(* ------------- the exported listening page: Prev and Next --------------- *)
\* the page is exported for untitled balanced packs of the shorter scripts,
\* with no block selected or with a single one
NavBlockSets == {{}, {"ordering"}, {"detail"}}
NavArgs ==
  {a \in ArgSets :
     /\ a.script \in {ScriptOneSentence, ScriptLibrary, ScriptFourTopics}
     /\ a.title = "" /\ a.questionFocus = "balanced"
     /\ a.selectedBlocks \in NavBlockSets}

\* findChunkIndexById(id): the index (from 0) of the chunk, 0 when none has it
findChunkIndexById(p, id) ==
  LET hits == {i \in 1..Len(p.chunks) : p.chunks[i].id = id}
  IN IF hits = {} THEN 0 ELSE Min(hits) - 1

\* act.chunkId is there and truthy
HasChunkId(act) ==
  "chunkId" \in DOMAIN act /\ act.chunkId # UndefinedText /\ act.chunkId # <<>>

\* renderActivity(): nothing when no activity stands at the index; otherwise
\* the chunk index follows the activity and setProgress() rewrites the label
renderActivity(p, st, label) ==
  IF st.activityIndex \notin 0..(Len(p.activities) - 1)
  THEN [state |-> st, stepLabel |-> label]
  ELSE LET act == p.activities[st.activityIndex + 1]
       IN [state |-> IF HasChunkId(act)
                     THEN [st EXCEPT !.currentChunkIndex = findChunkIndexById(p, act.chunkId)]
                     ELSE st,
           stepLabel |-> [step |-> st.activityIndex + 1, total |-> Len(p.activities)]]

NavInit ==
  /\ callArgs \in NavArgs
  /\ clock = 0
  /\ seed = [order |-> <<>>, match |-> <<>>]
  /\ ret = NoCall
  /\ ret2 = NoCall
  /\ pc = "ready"
  /\ cin = NoArgs /\ cout = NoChunking /\ cpc = "unused"
  /\ GenUnused /\ HtmlUnused /\ NavUnused

\* the exported page is opened: its script embeds the pack, sets up the
\* state object and renders the first activity
Open ==
  /\ pc = "built" /\ ret.kind = "pack" /\ pack = NoCall
  /\ LET shown == renderActivity(ret, [activityIndex |-> 0, currentChunkIndex |-> 0],
                                 [step |-> 0, total |-> 0])
     IN /\ pack' = ret
        /\ state' = shown.state
        /\ stepLabel' = shown.stepLabel
  /\ UNCHANGED <<callArgs, clock, seed, ret, ret2, pc, cin, cout, cpc, genVars, htmlVars>>

\* the click handler of prevBtn
Prev ==
  /\ pack # NoCall
  /\ LET shown == renderActivity(pack,
                    [state EXCEPT !.activityIndex = Max({0, state.activityIndex - 1})],
                    stepLabel)
     IN state' = shown.state /\ stepLabel' = shown.stepLabel
  /\ UNCHANGED <<pack, callArgs, clock, seed, ret, ret2, pc, cin, cout, cpc, genVars, htmlVars>>

\* the click handler of nextBtn
NextClick ==
  /\ pack # NoCall
  /\ LET shown == renderActivity(pack,
                    [state EXCEPT !.activityIndex =
                       Min({Len(pack.activities) - 1, state.activityIndex + 1})],
                    stepLabel)
     IN state' = shown.state /\ stepLabel' = shown.stepLabel
  /\ UNCHANGED <<pack, callArgs, clock, seed, ret, ret2, pc, cin, cout, cpc, genVars, htmlVars>>

NavNext == Build \/ Open \/ Prev \/ NextClick

SpecNav == NavInit /\ [][NavNext]_vars

(* ------------------------------ properties ------------------------------ *)
Returned == pc \in {"built", "again"} /\ ret.kind = "pack"
Activities == IF Returned THEN ret.activities ELSE <<>>
OfType(types) == {i \in 1..Len(Activities) : Activities[i].type \in types}
McqTypes == {"gist_mcq", "detail_mcq", "summary_mcq"}
OptionIds(side) == {side.options[k].id : k \in 1..Len(side.options)}
TheRecipe == RecipeOf(callArgs.script, callArgs.level)

\* C1: in every gist_mcq, detail_mcq and summary_mcq activity of a returned
\* pack, the answer letter is the id of an option of standard.options and the
\* id of an option of adapted.options.
C1_AnswerLetterOnBothSides ==
  \A i \in OfType(McqTypes) :
    /\ Activities[i].answer \in OptionIds(Activities[i].standard)
    /\ Activities[i].answer \in OptionIds(Activities[i].adapted)

\* a pack with all three MCQ types, one of whose adapted sides leaves out
\* letters that precede the answer letter
C1_Witness ==
  /\ \A ty \in McqTypes : OfType({ty}) # {}
  /\ \E i \in OfType(McqTypes) :
       /\ Activities[i].answer = "C"
       /\ Len(Activities[i].adapted.options) = 2

IsPermutation(s, t) ==
  /\ Len(s) = Len(t)
  /\ \A x \in Range(s) \cup Range(t) :
       Cardinality({k \in 1..Len(s) : s[k] = x}) = Cardinality({k \in 1..Len(t) : t[k] = x})

\* C3: in every order activity standard.items and adapted.items are the same
\* list, answer is a permutation of that list, and the two sides carry nothing
\* but a prompt and the items.
C3_OrderSharedItems ==
  \A i \in OfType({"order"}) :
    LET a == Activities[i] IN
    /\ DOMAIN a.standard = {"prompt", "items"} /\ DOMAIN a.adapted = {"prompt", "items"}
    /\ a.standard.items = a.adapted.items
    /\ IsPermutation(a.answer, a.standard.items)
    /\ \A k \in 1..Len(a.answer) : \A m \in 1..Len(a.answer) :
         a.answer[k] = a.answer[m] => k = m

\* an order activity of four items that the shuffle really scrambled
C3_Witness ==
  \E i \in OfType({"order"}) :
    /\ Len(Activities[i].answer) = 4
    /\ Activities[i].standard.items # Activities[i].answer
    /\ Activities[i].standard.prompt # Activities[i].adapted.prompt

\* C4: in every match activity standard and adapted carry the same left and
\* right lists, answer has the length of left, every answer[i] is an index
\* into right, right[answer[i]] is the label of the chunk left[i] was picked
\* from, and answer is a permutation of 0..left.length-1.
C4_MatchAnswer ==
  \A i \in OfType({"match"}) :
    LET a == Activities[i]
        picks == TheRecipe.picks
    IN /\ a.standard.left = a.adapted.left /\ a.standard.right = a.adapted.right
       /\ Len(a.answer) = Len(a.standard.left)
       /\ Len(picks) = Len(a.standard.left)
       /\ \A k \in 1..Len(a.answer) :
            /\ a.answer[k] \in 0..(Len(a.standard.right) - 1)
            /\ a.standard.left[k] = picks[k].anchor
            /\ a.standard.right[a.answer[k] + 1] = picks[k].chunkLabel
       /\ Range(a.answer) = 0..(Len(a.standard.left) - 1)

\* a match activity whose right list the shuffle moved away from pick order
C4_Witness ==
  \E i \in OfType({"match"}) :
    /\ Len(Activities[i].answer) = 4
    /\ Activities[i].answer[1] = 3
    /\ Activities[i].answer[4] = 0

Chunked == cpc = "chunked"
\* a text without its whitespace
StripSpace(s) == SubSeqAt(s, {k \in 1..Len(s) : ~IsSpace(s[k])})

\* C5: the chunk texts chunkForWorkingMemory returns, concatenated in order
\* and compared without whitespace, reproduce the script: no character that
\* is not whitespace is dropped, duplicated or reordered.
C5_Partition ==
  Chunked => StripSpace(Flatten(cout.final)) = StripSpace(cin.text)

BlockOfType ==
  [ty \in {"gist_mcq", "detail_mcq", "detail_tf", "order", "match", "summary_mcq"} |->
     CASE ty = "gist_mcq" -> "gist_main"
       [] ty = "detail_mcq" -> "detail"
       [] ty = "detail_tf" -> "true_false"
       [] ty = "order" -> "ordering"
       [] ty = "match" -> "vocabulary"
       [] ty = "summary_mcq" -> "cloze_gapfill"]

\* C8: when selectedBlocks is not empty, whatever the questionFocus, an
\* activity is present only if the block of its type is selected; and
\* selectedBlocks = {ordering} with 4 chunks at level B2 yields one order
\* activity and nothing else.
C8_BlocksGate ==
  Returned =>
    /\ callArgs.selectedBlocks # {} =>
         \A i \in 1..Len(Activities) : BlockOfType[Activities[i].type] \in callArgs.selectedBlocks
    /\ (callArgs.selectedBlocks = {"ordering"} /\ Len(ret.chunks) = 4 /\ callArgs.level = "B2") =>
         Len(Activities) = 1 /\ Activities[1].type = "order"

\* only ordering is selected, for 4 chunks at B2, under a focus that would
\* by itself enable true/false and match
C8_Witness ==
  /\ Returned
  /\ callArgs.selectedBlocks = {"ordering"} /\ Len(ret.chunks) = 4 /\ callArgs.level = "B2"
  /\ callArgs.questionFocus = "balanced"
  /\ Len(Activities) = 1

\* C9: for every script that is not empty, and every level, questionFocus and
\* selectedBlocks, buildLocalListeningPack returns a pack and raises no error.
C9_NeverThrows ==
  (pc \in {"built", "again"} /\ callArgs.script # <<>>) => ret.kind = "pack"

\* true/false items were made from the last chunk, whose next chunk wraps
\* around to the first
C9_Witness ==
  /\ Returned
  /\ callArgs.script # <<>>
  /\ Len(ret.chunks) = 2
  /\ Cardinality(OfType({"detail_tf"})) = 2

GenDone == gpc = "done"
NoScriptAvailable == Trim(ScriptSource(ui)) = <<>>
\* the remote service delivered no pack: a status that is not OK, a request
\* that failed, or a body that could not be read
NoPackDelivered == resp.kind = "failed" \/ ~resp.ok \/ ~resp.readable

\* C11: whenever the remote service delivers no pack (a non-OK status, a failed
\* request or an unreadable body) and the script is not empty after trimming,
\* generateListeningPack ends with listeningPack set to the pack
\* buildLocalListeningPack built.
C11_LocalFallback ==
  (GenDone /\ NoPackDelivered /\ ~NoScriptAvailable) =>
    /\ ret = buildLocalListeningPack(LocalArgs(ui, callArgs), seed, clock)
    /\ ret.kind = "pack"
    /\ listeningPack = ret

Embedded == hpc = "embedded"
CountOf(text, c) == Cardinality({k \in 1..Len(text) : text[k] = c})

\* C13: the text safeSerializeForHtml embeds contains no '<'; each '<' of the
\* serialized JSON has become the six characters \u003c, so the text is five
\* characters longer per '<' and no value such as '</script>' survives in it;
\* and reading the embedded text back yields the original object.
C13_EmbeddedJsonSafe ==
  Embedded =>
    /\ \A k \in 1..Len(hout) : hout[k] # "<"
    /\ Len(hout) = Len(JSONstringify(hin)) + 5 * CountOf(JSONstringify(hin), "<")
    /\ ParseEmbedded(hout) = hin

\* a payload whose title is '</script>' and one of whose items has a
\* backslash right before '<'
C13_Witness ==
  /\ Embedded
  /\ hin.title = ClosingTag
  /\ \E k \in 1..Len(hin.items) : hin.items[k] = <<"a", "\\", "<">>
  /\ Len(hout) > Len(JSONstringify(hin))


(* ------------------- the content of each category ----------------------- *)
Sides(a) == {a.standard, a.adapted}
ShapeFields == {"options", "left", "right", "items"}
\* the payload shapes a side carries: an option list, a pair of columns, a
\* list of items
ShapesOn(side) ==
  {sh \in {"options", "columns", "items"} :
     \/ sh = "options" /\ "options" \in DOMAIN side
     \/ sh = "columns" /\ {"left", "right"} \subseteq DOMAIN side
     \/ sh = "items" /\ "items" \in DOMAIN side}
ShapeOfType(type) ==
  IF type \in McqTypes THEN {"options"}
  ELSE IF type = "match" THEN {"columns"}
  ELSE IF type = "order" THEN {"items"} ELSE {}
FieldsOfType(type) ==
  IF type \in McqTypes THEN {"options"}
  ELSE IF type = "match" THEN {"left", "right"}
  ELSE IF type = "order" THEN {"items"} ELSE {}

\* C14 as claimed: every side of every activity, true/false items included,
\* has exactly one payload shape populated.
C14_AsClaimed ==
  \A i \in 1..Len(Activities) : \A side \in Sides(Activities[i]) :
    Cardinality(ShapesOn(side)) = 1

\* C14: on each of its two sides an MCQ activity carries options and nothing
\* else, a match activity left and right and nothing else, an order activity
\* items and nothing else, each of them non-empty; a detail_tf activity
\* carries none of the three shapes, only its prompt.
C14_ShapePerType ==
  \A i \in 1..Len(Activities) : \A side \in Sides(Activities[i]) :
    /\ ShapesOn(side) = ShapeOfType(Activities[i].type)
    /\ DOMAIN side \cap ShapeFields = FieldsOfType(Activities[i].type)
    /\ \A f \in DOMAIN side \cap ShapeFields : side[f] # <<>>
    /\ Activities[i].type = "detail_tf" => DOMAIN side = {"prompt"}

\* one pack with all six activity types
C14_Witness ==
  /\ Returned
  /\ {Activities[i].type : i \in 1..Len(Activities)}
       = {"gist_mcq", "detail_mcq", "detail_tf", "order", "match", "summary_mcq"}

ActsOf(type) == SubSeqAt(Activities, OfType({type}))
IdsOf(options) == AsSeq([k \in 1..Len(options) |-> options[k].id])
TextAt(options, letter) ==
  options[CHOOSE k \in 1..Len(options) : options[k].id = letter]
\* the adapted count the type and the level fix
AdaptedCountAt(type, level) ==
  IF type = "gist_mcq" THEN (IF level = "A1" THEN 2 ELSE IF level = "A2" THEN 3 ELSE 4)
  ELSE IF type = "detail_mcq"
       THEN (IF level = "A1" THEN 2 ELSE IF level \in {"A2", "B1"} THEN 3 ELSE 4)
  ELSE (IF level \in {"A1", "A2"} THEN 2 ELSE 3)
\* the correct letter, then the first n - 1 of the others, listed in A-D order
KeptFrom(answer, n) ==
  LET others == SubSeqAt(ALL_LETTERS, {k \in DOMAIN ALL_LETTERS : ALL_LETTERS[k] # answer})
      keep == {answer} \cup {others[k] : k \in 1..(n - 1)}
  IN SubSeqAt(ALL_LETTERS, {k \in DOMAIN ALL_LETTERS : ALL_LETTERS[k] \in keep})
KeptLetters == [answer \in Range(ALL_LETTERS), n \in 2..4 |-> KeptFrom(answer, n)]
\* the numbers of adapted options the MCQs of each type have, for every
\* script the inputs are drawn from and every level
AdaptedCounts ==
  [i \in DOMAIN Scripts, l \in Range(levels) |->
     LET r == RecipeTable[i, l]
     IN [gist_mcq |-> {Len(r.gist.adapted.options)},
         detail_mcq |-> {Len(r.details[k].adapted.options) : k \in 1..Len(r.details)},
         summary_mcq |-> {Len(r.summary.adapted.options)}]]
ScriptIndex == CHOOSE i \in DOMAIN Scripts : Scripts[i] = callArgs.script

\* C15: every MCQ has the standard options A, B, C, D in that order and as
\* adapted options the correct letter with the first adaptedCount - 1 other
\* letters, adaptedCount being 2/3/4 for gist at A1/A2/B1+, 2/3/3/4 for
\* detail at A1/A2/B1/B2+, 2/3 for summary at A2/B1+; the count lies between
\* 2 and 4 and does not decrease from one level to the next.
C15_OptionCounts ==
  Returned =>
    /\ \A i \in OfType(McqTypes) :
         LET a == Activities[i]
             n == AdaptedCountAt(a.type, callArgs.level)
         IN /\ IdsOf(a.standard.options) = <<"A", "B", "C", "D">>
            /\ Len(a.adapted.options) = n
            /\ n \in 2..4
            /\ IdsOf(a.adapted.options) = KeptLetters[a.answer, n]
    /\ \A type \in McqTypes : \A k \in 1..(Len(levels) - 1) :
         \A lo \in AdaptedCounts[ScriptIndex, levels[k]][type] :
           \A hi \in AdaptedCounts[ScriptIndex, levels[k + 1]][type] : lo <= hi

\* at B1 the fourth detail item, whose answer is D, shows A, B and D
C15_Witness ==
  /\ Returned /\ callArgs.level = "B1"
  /\ \E i \in OfType({"detail_mcq"}) :
       /\ Activities[i].answer = "D"
       /\ IdsOf(Activities[i].adapted.options) = <<"A", "B", "D">>
  /\ \E i \in OfType({"gist_mcq"}) : Len(Activities[i].adapted.options) = 4
  /\ \E i \in OfType({"summary_mcq"}) : Len(Activities[i].adapted.options) = 3

Chunks == TheRecipe.ctx.chunks
Keys == TheRecipe.keys
\* the text the gist item and the summary item present as correct, for every
\* script the inputs are drawn from
CorrectTexts ==
  [i \in DOMAIN Scripts, l \in Range(levels) |->
     LET ctx == RecipeTable[i, l].ctx
         top == Join(Take(ctx.anchorPool, 4), CommaSpace)
         texts == AsSeq([k \in 1..Len(ctx.chunks) |-> ctx.chunks[k].text])
     IN [gist |-> GistPrefix \o (IF top # <<>> THEN top ELSE GistTheme),
         summary |-> SummaryPrefix \o cleanSnippet(Join(texts, <<" ">>), 80)]]
TheCorrectTexts == CorrectTexts[ScriptIndex, callArgs.level]
GistCorrect == TheCorrectTexts.gist
SummaryCorrect == TheCorrectTexts.summary
LetterAt(index) == <<"A", "B", "C", "D">>[index + 1]

\* C16: the gist answer is A at level A1 and B otherwise, the answer of the
\* i-th detail item (from 0) is the letter at index i mod 4, the summary
\* answer is the letter at index (chunkCount + 1) mod 4, and in each the
\* standard option with that letter holds the correct text.
C16_CorrectLetter ==
  Returned =>
    /\ \A i \in OfType({"gist_mcq"}) :
         /\ Activities[i].answer = IF callArgs.level = "A1" THEN "A" ELSE "B"
         /\ TextAt(Activities[i].standard.options, Activities[i].answer).text = GistCorrect
    /\ LET details == ActsOf("detail_mcq")
           keys == Keys
       IN \A k \in 1..Len(details) :
            /\ details[k].answer = LetterAt((k - 1) % 4)
            /\ TextAt(details[k].standard.options, details[k].answer).text = keys[k]
    /\ \A i \in OfType({"summary_mcq"}) :
         /\ Activities[i].answer = LetterAt((Len(Chunks) + 1) % 4)
         /\ TextAt(Activities[i].standard.options, Activities[i].answer).text
              = SummaryCorrect

\* with eight chunks the fifth detail item is back at A and the summary is
\* at B
C16_Witness ==
  /\ Returned /\ Len(Chunks) = 8
  /\ LET details == ActsOf("detail_mcq")
     IN Len(details) >= 5 /\ details[4].answer = "D" /\ details[5].answer = "A"
  /\ \E i \in OfType({"gist_mcq"}) : Activities[i].answer = "B"
  /\ \E i \in OfType({"summary_mcq"}) : Activities[i].answer = "B"

MaxDetailAt(level) ==
  IF level = "A1" THEN 3 ELSE IF level = "A2" THEN 4 ELSE IF level = "B1" THEN 5
  ELSE IF level = "B2" THEN 6 ELSE 7

\* C17: when detail is enabled there are min(maxDetail, chunkCount)
\* detail_mcq items, maxDetail being 3, 4, 5, 6, 7, 7 from A1 to C2; the i-th
\* has the id of chunk i of the pack as chunkId and the key of chunk i as the
\* text of its correct option, and no other option has that text.
C17_DetailPerChunk ==
  (Returned /\ allowDetail(callArgs)) =>
    LET details == ActsOf("detail_mcq")
        keys == Keys
    IN /\ Len(details) = Min({MaxDetailAt(callArgs.level), Len(ret.chunks)})
       /\ \A k \in 1..Len(details) :
            /\ details[k].chunkId = ret.chunks[k].id
            /\ \A o \in 1..Len(details[k].standard.options) :
                 (details[k].standard.options[o].text = keys[k])
                   <=> (details[k].standard.options[o].id = details[k].answer)

\* eight chunks at B2: six detail items, the sixth tied to the sixth chunk
C17_Witness ==
  /\ Returned /\ allowDetail(callArgs)
  /\ Len(ret.chunks) = 8 /\ callArgs.level = "B2"
  /\ LET details == ActsOf("detail_mcq")
     IN Len(details) = 6 /\ details[6].chunkId = ret.chunks[6].id

\* C18 as claimed: true/false enabled and a non-empty script give 2 or 3
\* detail_tf items.
C18_AsClaimed ==
  (Returned /\ allowTrueFalse(callArgs) /\ callArgs.script # <<>>) =>
    Len(ActsOf("detail_tf")) \in {2, 3}

\* C18: with true/false enabled the pack has min(n, chunkCount) detail_tf
\* items, n being 2 at A1 and A2 and 3 from B1: 2 or 3 of them when the
\* script has that many chunks, fewer when it has fewer, and none when
\* true/false is not enabled.
C18_TfCount ==
  Returned =>
    Len(ActsOf("detail_tf")) =
      IF allowTrueFalse(callArgs)
      THEN Min({IF callArgs.level \in {"A1", "A2"} THEN 2 ELSE 3, Len(ret.chunks)})
      ELSE 0

\* a script of one chunk with one detail_tf item
C18_Witness ==
  /\ Returned /\ allowTrueFalse(callArgs)
  /\ callArgs.script = ScriptOneSentence
  /\ Len(ret.chunks) = 1
  /\ Len(ActsOf("detail_tf")) = 1

\* C19: with at least 2 chunks the first detail_tf item is tf1, tied to the
\* first chunk, with answer F, and every later one has answer T; with one
\* chunk every answer is T; every answer is T or F.
C19_FirstIsFalse ==
  Returned =>
    LET tfs == ActsOf("detail_tf")
    IN /\ \A k \in 1..Len(tfs) :
            /\ tfs[k].answer \in {"T", "F"}
            /\ tfs[k].answer = "F" <=> (k = 1 /\ Len(ret.chunks) >= 2)
       /\ (allowTrueFalse(callArgs) /\ Len(ret.chunks) >= 2) =>
            /\ tfs # <<>>
            /\ tfs[1].id = <<"t", "f", "1">>
            /\ tfs[1].chunkId = ret.chunks[1].id
            /\ \E k \in 1..Len(tfs) : tfs[k].answer = "F"

\* three detail_tf items answered F, T, T
C19_Witness ==
  /\ Returned
  /\ LET tfs == ActsOf("detail_tf")
     IN /\ Len(tfs) = 3
        /\ tfs[1].answer = "F" /\ tfs[2].answer = "T" /\ tfs[3].answer = "T"

\* C20: an order activity only with 3 or more chunks and a level of A2 or
\* higher, a match activity only with 3 or more chunks, a summary_mcq only at
\* A2 or higher, whatever blocks are selected; at most one gist_mcq, order,
\* match and summary_mcq in a pack.
C20_StructuralPreconditions ==
  Returned =>
    /\ OfType({"order"}) # {} => (Len(ret.chunks) >= 3 /\ callArgs.level # "A1")
    /\ OfType({"match"}) # {} => Len(ret.chunks) >= 3
    /\ OfType({"summary_mcq"}) # {} => callArgs.level # "A1"
    /\ \A type \in {"gist_mcq", "order", "match", "summary_mcq"} :
         Cardinality(OfType({type})) <= 1

\* ordering and cloze_gapfill selected at A1 for a script of eight chunks:
\* the pack has no activity at all
C20_Witness ==
  /\ Returned
  /\ callArgs.selectedBlocks = {"ordering", "cloze_gapfill"}
  /\ callArgs.level = "A1" /\ Len(ret.chunks) = 8
  /\ Activities = <<>>

\* the chunks a match activity draws its pairs from, for every script the
\* inputs are drawn from: in chunk order, the first four whose key repeats
\* the key of no earlier chunk
PickedChunks ==
  [i \in DOMAIN Scripts, l \in Range(levels) |->
     LET keys == RecipeTable[i, l].keys
         fresh == {k \in 1..Len(keys) :
                     keys[k] # <<>> /\ \A j \in 1..(k - 1) : keys[j] # keys[k]}
     IN SortedSeq({k \in fresh : Cardinality({j \in fresh : j < k}) < 4})]

\* C21: the left list of a match activity holds 3 or 4 pairwise distinct
\* keys, those of the first chunks in chunk order whose key repeats no
\* earlier one, the right list holds exactly the labels of those chunks, and
\* with match enabled and 3 or more chunks the activity is there exactly when
\* 3 such chunks exist.
C21_MatchPairs ==
  Returned =>
    LET picked == PickedChunks[ScriptIndex, callArgs.level]
        keys == Keys
    IN /\ \A i \in OfType({"match"}) : \A side \in Sides(Activities[i]) :
            /\ Len(side.left) \in 3..4
            /\ \A j, k \in 1..Len(side.left) : j # k => side.left[j] # side.left[k]
            /\ side.left = AsSeq([k \in 1..Len(picked) |-> keys[picked[k]]])
            /\ Len(side.right) = Len(picked)
            /\ Range(side.right) = {ret.chunks[picked[k]].label : k \in 1..Len(picked)}
       /\ (allowMatch(callArgs) /\ Len(ret.chunks) >= 3) =>
            (OfType({"match"}) # {} <=> Len(picked) >= 3)

\* four chunks of which the third repeats the key of the second: the pairs
\* come from the chunks 1, 2 and 4
C21_Witness ==
  /\ Returned /\ callArgs.script = ScriptGardenTwice /\ Len(ret.chunks) = 4
  /\ PickedChunks[ScriptIndex, callArgs.level] = <<1, 2, 4>>
  /\ \E i \in OfType({"match"}) :
       /\ Len(Activities[i].standard.left) = 3
       /\ Range(Activities[i].standard.right)
            = {ret.chunks[1].label, ret.chunks[2].label, ret.chunks[4].label}

TypesPresent == {Activities[i].type : i \in 1..Len(Activities)}
NoBlocks == callArgs.selectedBlocks = {}
TheFocus == IF callArgs.questionFocus = Undefined THEN "balanced" ELSE callArgs.questionFocus

\* C22: with no block selected a pack has its gist item and its detail items
\* whatever the focus, true/false items exactly for the focuses balanced and
\* exam_style, an order item exactly for text_structure, balanced and
\* exam_style when its preconditions hold, a match item exactly for
\* vocab_phrases, balanced and exam_style when its preconditions hold, and a
\* summary item exactly from level A2; at B1 with the balanced focus that is
\* one gist item, min(5, chunkCount) detail items, true/false items, and an
\* order or a match item only with 3 or more chunks.
C22_FocusRecipe ==
  (Returned /\ NoBlocks) =>
    /\ Cardinality(OfType({"gist_mcq"})) = 1
    /\ "detail_mcq" \in TypesPresent
    /\ "detail_tf" \in TypesPresent <=> TheFocus \in {"balanced", "exam_style"}
    /\ "order" \in TypesPresent <=>
         /\ TheFocus \in {"text_structure", "balanced", "exam_style"}
         /\ Len(ret.chunks) >= 3 /\ callArgs.level # "A1"
    /\ "match" \in TypesPresent <=>
         /\ TheFocus \in {"vocab_phrases", "balanced", "exam_style"}
         /\ Len(ret.chunks) >= 3
         /\ Len(PickedChunks[ScriptIndex, callArgs.level]) >= 3
    /\ "summary_mcq" \in TypesPresent <=> callArgs.level # "A1"
    /\ (TheFocus = "balanced" /\ callArgs.level = "B1") =>
         /\ Cardinality(OfType({"detail_mcq"})) = Min({5, Len(ret.chunks)})
         /\ "detail_tf" \in TypesPresent
         /\ TypesPresent \cap {"order", "match"} # {} => Len(ret.chunks) >= 3

\* the text_structure focus at B1 on eight chunks: gist, five detail items,
\* an order item and a summary, neither true/false nor match
C22_Witness ==
  /\ Returned /\ NoBlocks
  /\ callArgs.questionFocus = "text_structure" /\ callArgs.level = "B1"
  /\ Len(ret.chunks) = 8
  /\ TypesPresent = {"gist_mcq", "detail_mcq", "order", "summary_mcq"}

\* the categories a call enables: those whose items it would emit when the
\* script had the chunks and the keys for them
EnabledCategories(args) ==
  {c \in {"gist", "detail", "true_false", "order", "match", "summary"} :
     \/ c = "gist" /\ allowGist(args)
     \/ c = "detail" /\ allowDetail(args)
     \/ c = "true_false" /\ allowTrueFalse(args)
     \/ c = "order" /\ allowOrder(args) /\ levelAtLeast(args.level, "A2")
     \/ c = "match" /\ allowMatch(args)
     \/ c = "summary" /\ allowSummary(args) /\ levelAtLeast(args.level, "A2")}
WithPresetBlocks(args) ==
  [args EXCEPT !.selectedBlocks = defaultBlocksFor(args.level, FocusOf(args))]

\* C23: a call with no block selected enables the categories that the same
\* call enables with the blocks of defaultBlocksFor(level, focus) selected.
C23_PresetEquivalence ==
  (Returned /\ NoBlocks) =>
    EnabledCategories(callArgs) = EnabledCategories(WithPresetBlocks(callArgs))

\* C24: the answer of the order activity lists the labels of the chunks 1,
\* 2, ... in chunk order, without gap or repeat: the first 3 at A2, the first
\* min(4, chunkCount) from B1.
C24_OrderAnswer ==
  Returned =>
    \A i \in OfType({"order"}) :
      LET answer == Activities[i].answer
          n == IF callArgs.level = "A2" THEN 3 ELSE Min({4, Len(ret.chunks)})
      IN /\ Len(answer) = n
         /\ \A k \in 1..n : answer[k] = ret.chunks[k].label
         /\ \A j, k \in 1..n : j # k => answer[j] # answer[k]

\* four chunks at A2: the answer is the labels of the first three
C24_Witness ==
  /\ Returned /\ callArgs.level = "A2" /\ Len(ret.chunks) = 4
  /\ \E i \in OfType({"order"}) :
       Activities[i].answer = <<ret.chunks[1].label, ret.chunks[2].label, ret.chunks[3].label>>

\* the sentences lo..hi joined by single spaces
Joined(lo, hi) == JoinRange(cout.sentences, <<" ">>, lo, hi)
\* the first sentence of the group that sentence p is in, the groups being
\* closed after the sentences of cuts
GroupStart(cuts, p) == Max({1} \cup {q + 1 : q \in {c \in cuts : c < p}})

\* C25: the chunks before slicing are the sentences, in order, grouped into
\* runs joined by single spaces; a run is closed after a sentence exactly
\* when the run, one space and the next sentence together are longer than T;
\* so a chunk of two or more sentences is at most T long.
C25_GreedyGrouping ==
  Chunked =>
    LET n == Len(cout.sentences)
        T == cin.targetChars
    IN IF n = 0 THEN cout.greedy = <<>>
       ELSE \E cuts \in SUBSET (1..(n - 1)) :
              LET ends == SortedSeq(cuts \cup {n})
              IN /\ Len(cout.greedy) = Len(ends)
                 /\ \A k \in 1..Len(ends) :
                      /\ cout.greedy[k] = Joined(GroupStart(cuts, ends[k]), ends[k])
                      /\ GroupStart(cuts, ends[k]) < ends[k] => Len(cout.greedy[k]) <= T
                 /\ \A p \in 1..(n - 1) :
                      p \in cuts <=>
                        Len(Joined(GroupStart(cuts, p), p)) + 1 + Len(cout.sentences[p + 1]) > T

\* three sentences: the second joined the first, the third did not fit
C25_Witness ==
  /\ Chunked
  /\ Len(cout.sentences) = 3 /\ Len(cout.greedy) = 2
  /\ cout.greedy[1] = cout.sentences[1] \o <<" ">> \o cout.sentences[2]
  /\ cout.greedy[2] = cout.sentences[3]

\* a character a token is made of
InToken(c) == IsTokenChar(c) /\ ~IsSpace(c)
\* the positions of t where w stands as a whole token
Occurrences(t, w) ==
  {i \in 1..(Len(t) - Len(w) + 1) :
     /\ SubSeq(t, i, i + Len(w) - 1) = w
     /\ i = 1 \/ ~InToken(t[i - 1])
     /\ i + Len(w) - 1 = Len(t) \/ ~InToken(t[i + Len(w)])}
\* the tokens of t: its maximal runs of token characters
TokensOf(t) ==
  LET starts == {i \in 1..Len(t) : InToken(t[i]) /\ (i = 1 \/ ~InToken(t[i - 1]))}
      EndOf(i) == Min({e \in i..Len(t) : e = Len(t) \/ ~InToken(t[e + 1])})
  IN {SubSeq(t, i, EndOf(i)) : i \in starts}
\* w comes before v in the ranking of the tokens of t
Outranks(t, w, v) ==
  LET cw == Cardinality(Occurrences(t, w))
      cv == Cardinality(Occurrences(t, v))
  IN cw > cv \/ (cw = cv /\ Min(Occurrences(t, w)) < Min(Occurrences(t, v)))
\* what C26 says of the anchors a returned for the text and the cap K
AnchorFacts(text, a, K) ==
  LET t == toLowerCase(text)
      eligible == {w \in TokensOf(t) : Len(w) >= 4 /\ w \notin STOPWORDS}
  IN /\ Len(a) = Min({K, Cardinality(eligible)})
     /\ \A k \in 1..Len(a) :
          /\ a[k] \in eligible
          /\ a[k] = toLowerCase(a[k])
          /\ \A j \in 1..(k - 1) : a[j] # a[k] /\ Outranks(t, a[j], a[k])
          /\ \A w \in eligible \ Range(a) : Outranks(t, a[k], w)
\* what C26 says of the anchor pool of the chunks
PoolFacts(chunks, pool) ==
  LET flat == Flatten(AsSeq([k \in 1..Len(chunks) |-> chunks[k].anchors]))
      First(w) == Min({k \in 1..Len(flat) : flat[k] = w})
  IN /\ Len(pool) = Min({16, Cardinality(Range(flat))})
     /\ \A k \in 1..Len(pool) :
          /\ pool[k] \in Range(flat)
          /\ \A j \in 1..(k - 1) : First(pool[j]) < First(pool[k])
          /\ \A w \in Range(flat) \ Range(pool) : First(pool[k]) < First(w)
\* the facts of C26 for every script the inputs are drawn from
AnchorsAsClaimed ==
  [i \in DOMAIN Scripts, l \in Range(levels) |->
     LET ctx == RecipeTable[i, l].ctx
     IN /\ \A k \in 1..Len(ctx.chunks) :
             AnchorFacts(ctx.chunks[k].text, ctx.chunks[k].anchors, 5)
        /\ \A K \in {1, 4} :
             AnchorFacts(ctx.chunks[1].text, extractAnchors(ctx.chunks[1].text, K), K)
        /\ PoolFacts(ctx.chunks, ctx.anchorPool)]

\* C26: the anchors of a text are its K highest-ranking tokens among those of
\* 4 or more characters that are no stopwords, in lower case and pairwise
\* distinct, ranked by descending frequency and, at equal frequency, by first
\* occurrence; every chunk of a pack carries such anchors for K = 5; the
\* anchor pool is the union of the chunks' anchors in order of first
\* occurrence, cut at 16.
C26_Anchors ==
  Returned =>
    /\ ret.chunks = TheRecipe.ctx.chunks
    /\ \A k \in 1..Len(ret.chunks) : Len(ret.chunks[k].anchors) <= 5
    /\ Len(TheRecipe.ctx.anchorPool) <= 16
    /\ AnchorsAsClaimed[ScriptIndex, callArgs.level]

\* eight chunks with 5 anchors each and a pool cut at 16; in the second
\* chunk 'museum', heard twice, comes before 'science', heard once and first
C26_Witness ==
  /\ Returned /\ Len(ret.chunks) = 8
  /\ \A k \in 1..8 : Len(ret.chunks[k].anchors) = 5
  /\ Len(TheRecipe.ctx.anchorPool) = 16
  /\ ret.chunks[2].anchors[1] = <<"m","u","s","e","u","m">>
  /\ <<"s","c","i","e","n","c","e">> \in Range(ret.chunks[2].anchors)

\* the maximal runs of the positions `inside` of t, as pairs of their first
\* and last positions, in the order of the text
RunsOf(t, inside) ==
  LET starts == SortedSeq({i \in inside : (i - 1) \notin inside})
      EndOf(i) == Min({e \in i..Len(t) : (e + 1) \notin inside})
  IN AsSeq([k \in 1..Len(starts) |-> <<starts[k], EndOf(starts[k])>>])
\* the neighbours rs[k], rs[k + 1] for the k in good, each pair written as
\* its two runs of t with one space between; <<>> for the other k
PairsOf(t, rs, good) ==
  AsSeq([k \in 1..(Len(rs) - 1) |->
    IF k \in good
    THEN SubSeq(t, rs[k][1], rs[k][2]) \o <<" ">> \o SubSeq(t, rs[k + 1][1], rs[k + 1][2])
    ELSE <<>>])
\* the list is the first cap distinct pairs of prs in order of first occurrence
FirstOccurrenceFacts(prs, list, cap) ==
  LET all == Range(prs) \ {<<>>}
      First(b) == Min({k \in 1..Len(prs) : prs[k] = b})
  IN /\ Len(list) = Min({cap, Cardinality(all)})
     /\ \A k \in 1..Len(list) :
          /\ list[k] \in all
          /\ \A j \in 1..(k - 1) : First(list[j]) < First(list[k])
          /\ \A b \in all \ Range(list) : First(list[k]) < First(b)
\* the list is the cap highest-ranking distinct pairs of prs, by descending
\* frequency and, at equal frequency, by first occurrence
FrequencyFacts(prs, list, cap) ==
  LET all == Range(prs) \ {<<>>}
      Where(b) == {k \in 1..Len(prs) : prs[k] = b}
      Before(b, c) ==
        \/ Cardinality(Where(b)) > Cardinality(Where(c))
        \/ Cardinality(Where(b)) = Cardinality(Where(c)) /\ Min(Where(b)) < Min(Where(c))
  IN /\ Len(list) = Min({cap, Cardinality(all)})
     /\ \A k \in 1..Len(list) :
          /\ list[k] \in all
          /\ \A j \in 1..(k - 1) : list[j] # list[k] /\ Before(list[j], list[k])
          /\ \A b \in all \ Range(list) : Before(list[k], b)
\* what C27 says of the phrasal verbs pv found in the text
PhrasalFacts(text, pv) ==
  LET t == toLowerCase(text)
      rs == RunsOf(t, {i \in 1..Len(t) : IsWordChar(t[i])})
      good == {k \in 1..(Len(rs) - 1) :
                 /\ SubSeq(t, rs[k][1], rs[k][2]) \in Range(verbs)
                 /\ SubSeq(t, rs[k + 1][1], rs[k + 1][2]) \in Range(particles)
                 /\ \A j \in (rs[k][2] + 1)..(rs[k + 1][1] - 1) : IsSpace(t[j])}
  IN FirstOccurrenceFacts(PairsOf(t, rs, good), pv, 12)
\* what C27 says of the collocations col found in the text
CollocationFacts(text, col) ==
  LET t == toLowerCase(text)
      rs == RunsOf(t, {i \in 1..Len(t) : InToken(t[i])})
      content == {k \in 1..Len(rs) :
                    /\ rs[k][2] - rs[k][1] + 1 >= 3
                    /\ SubSeq(t, rs[k][1], rs[k][2]) \notin CollocationStop}
      good == {k \in content : (k + 1) \in content}
  IN FrequencyFacts(PairsOf(t, rs, good), col, 12)
\* the two lists and the pool of every script the inputs are drawn from,
\* and whether the facts of C27 hold of them
PhrasesAsClaimed ==
  [i \in DOMAIN Scripts |->
     LET pv == extractPhrasalVerbsLocal(Scripts[i])
         col == extractCollocationsLocal(Scripts[i])
         pool == PhrasePool(Scripts[i])
     IN [pv |-> pv, col |-> col, pool |-> pool,
         ok |-> /\ PhrasalFacts(Scripts[i], pv)
                /\ CollocationFacts(Scripts[i], col)
                /\ Cardinality(Range(pool)) = Len(pool)
                /\ Range(pool) = Range(pv) \cup Range(col)]]

\* C27: the phrasal verbs of a script are the pairs of a verb and a particle
\* of the two fixed lists that stand as neighbouring words, each pair once,
\* in order of first occurrence and cut at 12; the collocations are pairs of
\* neighbouring tokens that both have 3 or more characters and are no
\* stopwords, by descending frequency and, at equal frequency, by first
\* occurrence, cut at 12; the phrase pool of the two lists has no duplicates.
C27_Phrases ==
  Returned =>
    LET found == PhrasesAsClaimed[ScriptIndex]
    IN /\ found.ok
       /\ Len(found.pv) <= 12 /\ Len(found.col) <= 12
       /\ TheRecipe.ctx.phrasePool = found.pool
       /\ Cardinality(Range(found.pool)) = Len(found.pool)

\* 'look up' then 'pick up' are heard in the library script, and both are in
\* the pool in that order
C27_Witness ==
  /\ Returned /\ callArgs.script = ScriptLibrary
  /\ PhrasesAsClaimed[ScriptIndex].pv
       = << <<"l","o","o","k"," ","u","p">>, <<"p","i","c","k"," ","u","p">> >>
  /\ SubSeq(TheRecipe.ctx.phrasePool, 1, 2) = PhrasesAsClaimed[ScriptIndex].pv

\* the phrase a true/false statement about the chunk c puts in quotes
QuotedPhrase(a, c) ==
  LET lead == Len(c.label) + Len(IF levelAtMost(callArgs.level, "A2") THEN TfLow ELSE TfHigh)
  IN SubSeq(a.standard.prompt, lead + 1, Len(a.standard.prompt) - Len(TfClose))

\* C28: whenever a detail_tf item has the answer F, the phrase it quotes
\* differs from the key of the chunk the statement is labelled with, also
\* when two chunks share a key and when the next chunk of a two-chunk script
\* is found by wrapping around.
C28_FalseQuotesAnotherKey ==
  Returned =>
    LET tfs == ActsOf("detail_tf")
        keys == Keys
    IN \A k \in 1..Len(tfs) : \A j \in 1..Len(ret.chunks) :
         (tfs[k].answer = "F" /\ tfs[k].chunkId = ret.chunks[j].id)
           => QuotedPhrase(tfs[k], ret.chunks[j]) # keys[j]

\* C29: in every detail_mcq item no option other than the answer is one of
\* the anchors of the chunk the item asks about, on either side.
C29_DistractorsFromElsewhere ==
  Returned =>
    LET details == ActsOf("detail_mcq")
    IN \A k \in 1..Len(details) : \A j \in 1..Len(ret.chunks) :
         details[k].chunkId = ret.chunks[j].id =>
           \A side \in Sides(details[k]) : \A o \in 1..Len(side.options) :
             side.options[o].id # details[k].answer
               => side.options[o].text \notin Range(ret.chunks[j].anchors)

\* the page stands open
PageOpen == pack # NoCall

\* C30: on the exported listening page, after any sequence of Prev and Next
\* clicks, 0 <= activityIndex <= max(0, activities.length - 1), also for a
\* pack with no activities.
C30_IndexInRange ==
  PageOpen =>
    /\ 0 <= state.activityIndex
    /\ state.activityIndex <= Max({0, Len(pack.activities) - 1})

====
